---- MODULE Spec2Model ----
(***************************************************************************)
(* Model of utils/pdf_to_text_process.py: table detection with ordered     *)
(* fallback, table/text deduplication, markdown rendering, page assembly   *)
(* and chunking into Documents.                                            *)
(*                                                                         *)
(* A Python str is a sequence of one-character strings; a character that   *)
(* is not ASCII is written as a token naming its code point ("U+FF11").    *)
(* A cell that is None is the token None_.                                 *)
(***************************************************************************)
EXTENDS Integers, Sequences, FiniteSets, TLC

VARIABLES
  \* remove_table_line_duplicates called on its own (SpecDedup)
  d_pc, d_text, d_tables, d_out, d_out2,
  \* convert_table_to_markdown called on its own (SpecMd)
  m_pc, m_data, m_md,
  \* extract_tables_with_fitz_and_camelot called on its own (SpecDetect):
  \* what the three backends do for the page, and what the call gave
  t_pc, t_in, t_res,
  \* convert_pdf_to_text on a whole document (Spec)
  pc,             \* where the call is: "pages", "assembled", "done", "raised"
  n_pages,        \* len(pages)
  page_index,     \* the loop variable of get_text_and_tables, 0-based
  page_in,        \* what the backends gave for each page processed so far
  all_page_data,  \* the page records collected so far
  txt_content,    \* the assembled text
  documents,      \* the list the call returns
  call_result,    \* "running", "returned" or the exception that left the call
  \* text_to_documents called on its own, with its chunk_size and
  \* chunk_overlap arguments (SpecChunk)
  k_pc, k_pages, k_size, k_overlap, k_text, k_docs,
  \* rect_iou called on two rectangles (SpecIoU)
  r_pc, r_a, r_b, r_ab, r_ba, r_aa,
  \* fix_hyphenation called on a text (SpecHyphen)
  h_pc, h_text, h_out,
  \* extract_text_without_tables followed by remove_table_line_duplicates, as
  \* in the page loop of get_text_and_tables (SpecExtract): the words of the
  \* page, its table_items, and the locals filtered and lines
  x_pc, x_words, x_items, x_filtered, x_lines, x_text, x_out

dedupVars == <<d_pc, d_text, d_tables, d_out, d_out2>>
mdVars == <<m_pc, m_data, m_md>>
detectVars == <<t_pc, t_in, t_res>>
docVars == <<pc, n_pages, page_index, page_in, all_page_data, txt_content,
            documents, call_result>>
chunkVars == <<k_pc, k_pages, k_size, k_overlap, k_text, k_docs>>
iouVars == <<r_pc, r_a, r_b, r_ab, r_ba, r_aa>>
hyphenVars == <<h_pc, h_text, h_out>>
extractVars == <<x_pc, x_words, x_items, x_filtered, x_lines, x_text, x_out>>
restVars == <<chunkVars, iouVars, hyphenVars, extractVars>>
vars == <<d_pc, d_text, d_tables, d_out, d_out2, m_pc, m_data, m_md,
          t_pc, t_in, t_res, pc, n_pages, page_index, page_in, all_page_data,
          txt_content, documents, call_result,
          k_pc, k_pages, k_size, k_overlap, k_text, k_docs,
          r_pc, r_a, r_b, r_ab, r_ba, r_aa, h_pc, h_text, h_out,
          x_pc, x_words, x_items, x_filtered, x_lines, x_text, x_out>>

(***************************************************************************)
(* Strings                                                                 *)
(***************************************************************************)
None_ == <<"None">>

NL == "\n"
CR == "\r"

\* str.isspace() / regex \s on the characters the model uses
IsSpace(c) == c \in {" ", "\n", "\r", "\t"}

IsDigit(c) == c \in {"0", "1", "2", "3", "4", "5", "6", "7", "8", "9"}

RECURSIVE LStrip(_)
LStrip(s) == IF s # <<>> /\ IsSpace(Head(s)) THEN LStrip(Tail(s)) ELSE s

RECURSIVE RStrip(_)
RStrip(s) ==
  IF s # <<>> /\ IsSpace(s[Len(s)]) THEN RStrip(SubSeq(s, 1, Len(s) - 1)) ELSE s

\* str.strip()
Strip(s) == RStrip(LStrip(s))

\* sep.join(parts)
RECURSIVE Join(_, _)
Join(parts, sep) ==
  IF parts = <<>> THEN <<>>
  ELSE IF Len(parts) = 1 THEN parts[1]
  ELSE parts[1] \o sep \o Join(Tail(parts), sep)

\* str.splitlines(): a line ends at \n, \r or \r\n; no empty last line
RECURSIVE SplitLinesFrom(_, _)
SplitLinesFrom(s, cur) ==
  IF s = <<>> THEN (IF cur = <<>> THEN <<>> ELSE <<cur>>)
  ELSE IF Head(s) = CR /\ Len(s) >= 2 /\ s[2] = NL
       THEN <<cur>> \o SplitLinesFrom(Tail(Tail(s)), <<>>)
  ELSE IF Head(s) \in {NL, CR}
       THEN <<cur>> \o SplitLinesFrom(Tail(s), <<>>)
  ELSE SplitLinesFrom(Tail(s), Append(cur, Head(s)))

SplitLines(s) == SplitLinesFrom(s, <<>>)

\* unicodedata.normalize("NFKC", s) on the characters the model uses:
\* FULLWIDTH DIGIT ONE becomes "1", every other character is in normal form
NFKCChar(c) == IF c = "U+FF11" THEN "1" ELSE c

NFKC(s) == [i \in 1..Len(s) |-> NFKCChar(s[i])]

\* re.sub(r"\s+", " ", s): every maximal run of whitespace becomes one space
RECURSIVE CollapseSpace(_)
CollapseSpace(s) ==
  IF s = <<>> THEN <<>>
  ELSE IF IsSpace(Head(s))
       THEN <<" ">> \o CollapseSpace(LStrip(s))
       ELSE <<Head(s)>> \o CollapseSpace(Tail(s))

\* re.sub(r"(?<=\d),(?=\d)", "", s): the lookarounds read the subject string
KeepIndices(s) ==
  {i \in 1..Len(s) :
     ~(s[i] = "," /\ i > 1 /\ i < Len(s) /\ IsDigit(s[i - 1]) /\ IsDigit(s[i + 1]))}

RECURSIVE PickFrom(_, _, _)
PickFrom(s, keep, i) ==
  IF i > Len(s) THEN <<>>
  ELSE (IF i \in keep THEN <<s[i]>> ELSE <<>>) \o PickFrom(s, keep, i + 1)

StripDigitCommas(s) == PickFrom(s, KeepIndices(s), 1)

normalize_for_compare_noCommaStrip(s) ==
  IF s = None_ THEN <<>> ELSE Strip(CollapseSpace(NFKC(s)))

\* normalize_for_compare
normalize_for_compare(s) ==
  IF s = None_ THEN <<>>
  ELSE StripDigitCommas(Strip(CollapseSpace(NFKC(s))))

(***************************************************************************)
(* convert_table_to_markdown                                               *)
(***************************************************************************)
Max(S) == CHOOSE m \in S : \A x \in S : x <= m

\* str.replace("|", "\\|").replace("\n", " ")
RECURSIVE EscChars(_)
EscChars(cell) ==
  IF cell = <<>> THEN <<>>
  ELSE (IF Head(cell) = "|" THEN <<"\\", "|">>
        ELSE IF Head(cell) = NL THEN <<" ">>
        ELSE <<Head(cell)>>) \o EscChars(Tail(cell))

\* esc(cell)
esc(cell) == Strip(EscChars(cell))

\* "" if c is None else str(c).strip(), for every cell of every row
TrimRows(table_data) ==
  [i \in 1..Len(table_data) |->
     [j \in 1..Len(table_data[i]) |->
        IF table_data[i][j] = None_ THEN <<>> ELSE Strip(table_data[i][j])]]

RowIsBlank(r) == \A j \in 1..Len(r) : r[j] = <<>>

\* rows = [r for r in rows if any(cell != "" for cell in r)]
NonBlankRows(rows) == SelectSeq(rows, LAMBDA r : ~RowIsBlank(r))

PadRow_noPad(r, width) == SubSeq(r, 1, IF Len(r) < width THEN Len(r) ELSE width)

\* (r + [""] * (width - len(r)))[:width]
PadRow(r, width) == [j \in 1..width |-> IF j <= Len(r) THEN r[j] ELSE <<>>]

\* "| " + " | ".join(cells) + " |"
MdLine(cells) == <<"|", " ">> \o Join(cells, <<" ", "|", " ">>) \o <<" ", "|">>

Dashes == <<"-", "-", "-">>

DigitChar == <<"1", "2", "3", "4", "5", "6", "7", "8", "9">>

\* convert_table_to_markdown(table_data, header_rows), max_cols=None as every
\* caller leaves it
convert_table_to_markdown(table_data, header_rows) ==
  IF table_data = <<>> THEN <<>>
  ELSE
    LET rows0 == NonBlankRows(TrimRows(table_data)) IN
    IF rows0 = <<>> THEN <<>>
    ELSE
      LET width == Max({Len(rows0[i]) : i \in 1..Len(rows0)})
          rows == [i \in 1..Len(rows0) |-> PadRow(rows0[i], width)]
          header == IF header_rows >= 1 THEN rows[1]
                    ELSE [j \in 1..width |-> <<"c", "o", "l", DigitChar[j]>>]
          body == IF header_rows >= 1 /\ Len(rows) > 1
                  THEN SubSeq(rows, header_rows + 1, Len(rows))
                  ELSE rows
          lines == <<MdLine([j \in 1..Len(header) |-> esc(header[j])]),
                     MdLine([j \in 1..Len(header) |-> Dashes])>>
                   \o [i \in 1..Len(body) |->
                         MdLine([j \in 1..Len(body[i]) |-> esc(body[i][j])])]
      IN Join(lines, <<NL>>)

(***************************************************************************)
(* Table/text deduplication                                                *)
(***************************************************************************)
\* [str(c).strip() for c in row if c is not None and str(c).strip() != ""]
NonBlankCells(row) ==
  LET kept == SelectSeq(row, LAMBDA c : c # None_ /\ Strip(c) # <<>>)
  IN [j \in 1..Len(kept) |-> Strip(kept[j])]

build_table_line_set_min3(table_data, min_nonempty) ==
  {normalize_for_compare(Join(NonBlankCells(table_data[i]), <<" ">>)) :
     i \in {k \in 1..Len(table_data) :
              Len(NonBlankCells(table_data[k])) >= min_nonempty + 1}}

\* build_table_line_set
build_table_line_set(table_data, min_nonempty) ==
  {n \in {normalize_for_compare(Join(NonBlankCells(table_data[i]), <<" ">>)) :
            i \in {k \in 1..Len(table_data) :
                     Len(NonBlankCells(table_data[k])) >= min_nonempty}} :
     n # <<>>}

\* line_set |= build_table_line_set(raw, min_nonempty=2) for every item with rows
TableLineSet(table_items) ==
  UNION {build_table_line_set(table_items[i].raw_data, 2) :
           i \in {k \in 1..Len(table_items) : table_items[k].raw_data # <<>>}}

remove_table_line_duplicates_joinSpace(text, table_items) ==
  IF text = <<>> THEN text
  ELSE
    LET line_set == TableLineSet(table_items) IN
    IF line_set = {} THEN text
    ELSE
      LET out_lines == SelectSeq(SplitLines(text),
             LAMBDA line : ~(normalize_for_compare(line) # <<>>
                             /\ normalize_for_compare(line) \in line_set))
      IN Join(SelectSeq(out_lines, LAMBDA ln : Strip(ln) # <<>>), <<" ">>)

RECURSIVE HasPrefix(_, _)
HasPrefix(s, p) ==
  p = <<>> \/ (s # <<>> /\ Head(s) = Head(p) /\ HasPrefix(Tail(s), Tail(p)))

\* p in s
Contains(s, p) == \E i \in 1..(Len(s) + 1) : HasPrefix(SubSeq(s, i, Len(s)), p)

remove_table_line_duplicates_substring(text, table_items) ==
  IF text = <<>> THEN text
  ELSE
    LET line_set == TableLineSet(table_items) IN
    IF line_set = {} THEN text
    ELSE
      LET out_lines == SelectSeq(SplitLines(text),
             LAMBDA line : ~(\E e \in line_set :
                               Contains(normalize_for_compare(line), e)))
      IN Join(SelectSeq(out_lines, LAMBDA ln : Strip(ln) # <<>>), <<NL>>)

\* remove_table_line_duplicates
remove_table_line_duplicates(text, table_items) ==
  IF text = <<>> THEN text
  ELSE
    LET line_set == TableLineSet(table_items) IN
    IF line_set = {} THEN text
    ELSE
      LET out_lines == SelectSeq(SplitLines(text),
             LAMBDA line : ~(normalize_for_compare(line) # <<>>
                             /\ normalize_for_compare(line) \in line_set))
      IN Join(SelectSeq(out_lines, LAMBDA ln : Strip(ln) # <<>>), <<NL>>)

\* one entry of a page's table list
TableItem(bbox, raw_data, source) ==
  [bbox |-> bbox, raw_data |-> raw_data,
   markdown |-> convert_table_to_markdown(raw_data, 1), source |-> source]

(***************************************************************************)
(* extract_tables_with_fitz_and_camelot                                    *)
(*                                                                         *)
(* What a backend does for one page is an outcome                          *)
(*   [tables |-> the candidate tables it reports, each [bbox, data],       *)
(*    raises |-> whether an exception leaves the strategy's try block,     *)
(*    done   |-> how many candidates were processed before it did].        *)
(* raises with done = 0 is the backend call itself failing.  A candidate   *)
(* without a bbox has bbox = NoBBox; a fitz candidate whose extract()      *)
(* raised or gave None has data = NoData (None and [] are both falsy, and  *)
(* the code only tests the truth of data).                                 *)
(***************************************************************************)
NoBBox == <<>>
NoData == <<>>

\* the candidates the loop body completed
Processed(outcome) ==
  IF outcome.raises THEN SubSeq(outcome.tables, 1, outcome.done)
  ELSE outcome.tables

\* one attempt of a strategy, as the log of the call records it
Attempt(strategy, outcome, kept) ==
  [strategy |-> strategy, raised |-> outcome.raises, kept |-> kept]

\* if tb and data and len(data) > 0
FitzKeeps(t) == t.bbox # NoBBox /\ t.data # NoData /\ Len(t.data) > 0

\* 1) the primary strategy: the items it appends
FitzItems(outcome) ==
  LET kept == SelectSeq(Processed(outcome), FitzKeeps)
  IN [i \in 1..Len(kept) |-> TableItem(kept[i].bbox, kept[i].data, "fitz")]

\* not data or all(row is None or all(c is None or str(c).strip() == "" ...));
\* the rows of df.values.tolist() are lists, never None
CamelotSkips(data) ==
  \/ data = NoData
  \/ \A i \in 1..Len(data) : \A j \in 1..Len(data[i]) :
       data[i][j] = None_ \/ Strip(data[i][j]) = <<>>

\* the items one camelot flavor appends
CamelotItems(flavor, outcome) ==
  LET kept == SelectSeq(Processed(outcome), LAMBDA t : ~CamelotSkips(t.data))
  IN [i \in 1..Len(kept) |->
        TableItem(kept[i].bbox, kept[i].data,
                  IF flavor = "lattice" THEN "camelot-lattice" ELSE "camelot-stream")]

\* for flavor in ("lattice", "stream"): the break is reached only when the
\* flavor's try block ends without an exception
RECURSIVE CamelotLoop(_, _, _, _)
CamelotLoop(flavors, outcomes, table_items, attempts) ==
  IF flavors = <<>> THEN [table_items |-> table_items, attempts |-> attempts]
  ELSE
    LET new == CamelotItems(Head(flavors), Head(outcomes))
        items2 == table_items \o new
        log2 == Append(attempts, Attempt(Head(flavors), Head(outcomes), Len(new)))
    IN IF ~Head(outcomes).raises /\ Len(items2) > 0
       THEN [table_items |-> items2, attempts |-> log2]
       ELSE CamelotLoop(Tail(flavors), Tail(outcomes), items2, log2)

\* extract_tables_with_fitz_and_camelot: open_ok is whether fitz.open and
\* doc[page_index], which no try block covers, succeed
extract_tables_with_fitz_and_camelot(open_ok, fitz, lattice, stream) ==
  IF ~open_ok
  THEN [raised |-> TRUE, table_items |-> <<>>, attempts |-> <<>>]
  ELSE
    LET first == FitzItems(fitz)
        log1 == <<Attempt("fitz", fitz, Len(first))>>
        need_backup == Len(first) = 0
    IN IF need_backup
       THEN LET r == CamelotLoop(<<"lattice", "stream">>, <<lattice, stream>>,
                                 first, log1)
            IN [raised |-> FALSE, table_items |-> r.table_items,
                attempts |-> r.attempts]
       ELSE [raised |-> FALSE, table_items |-> first, attempts |-> log1]

(***************************************************************************)
(* rect_iou                                                                *)
(*                                                                         *)
(* A rectangle is <<x0, y0, x1, y1>> with integer coordinates. The float   *)
(* the function returns is the fraction <<inter, union>>; 0.0 is <<0, 1>>. *)
(***************************************************************************)
Max2(a, b) == IF a >= b THEN a ELSE b
Min2(a, b) == IF a <= b THEN a ELSE b

\* rect_iou(a, b) with union = a_area + b_area - inter
rect_iou_unionOfA(a, b) ==
  LET iw == Max2(0, Min2(a[3], b[3]) - Max2(a[1], b[1]))
      ih == Max2(0, Min2(a[4], b[4]) - Max2(a[2], b[2]))
      inter == iw * ih
      a_area == Max2(0, a[3] - a[1]) * Max2(0, a[4] - a[2])
  IN IF inter = 0 THEN <<0, 1>>
     ELSE IF a_area <= 0 THEN <<0, 1>>
     ELSE <<inter, a_area>>

rect_iou_noClamp(a, b) ==
  LET iw == Min2(a[3], b[3]) - Max2(a[1], b[1])
      ih == Min2(a[4], b[4]) - Max2(a[2], b[2])
      inter == iw * ih
      a_area == (a[3] - a[1]) * (a[4] - a[2])
      b_area == (b[3] - b[1]) * (b[4] - b[2])
      union == a_area + b_area - inter
  IN IF inter = 0 THEN <<0, 1>>
     ELSE IF union <= 0 THEN <<0, 1>>
     ELSE <<inter, union>>

\* rect_iou(a, b)
rect_iou(a, b) ==
  LET inter_x0 == Max2(a[1], b[1])
      inter_y0 == Max2(a[2], b[2])
      inter_x1 == Min2(a[3], b[3])
      inter_y1 == Min2(a[4], b[4])
      iw == Max2(0, inter_x1 - inter_x0)
      ih == Max2(0, inter_y1 - inter_y0)
      inter == iw * ih
      a_area == Max2(0, a[3] - a[1]) * Max2(0, a[4] - a[2])
      b_area == Max2(0, b[3] - b[1]) * Max2(0, b[4] - b[2])
      union == a_area + b_area - inter
  IN IF inter = 0 THEN <<0, 1>>
     ELSE IF union <= 0 THEN <<0, 1>>
     ELSE <<inter, union>>

(***************************************************************************)
(* extract_text_without_tables                                             *)
(*                                                                         *)
(* A word is [text, x0, x1, top, bottom]; a bbox is <<x0, top, x1, bottom>>.*)
(* Coordinates are integers counting half points, so that the margin of    *)
(* 0.5pt is 1 and the tolerance of 3pt is 6.                               *)
(***************************************************************************)
InsideMargin == 1
YTol == 6

\* inside_any(bbox, table_bboxes, margin)
inside_any(bbox, table_bboxes, margin) ==
  \E k \in 1..Len(table_bboxes) :
    LET tb == table_bboxes[k] IN
      /\ bbox[1] >= tb[1] - margin
      /\ bbox[3] <= tb[3] + margin
      /\ bbox[2] >= tb[2] - margin
      /\ bbox[4] <= tb[4] + margin

WordBBox(w) == <<w.x0, w.top, w.x1, w.bottom>>

\* key=lambda w: (w["top"], w["x0"])
LeqTopX0(a, b) == a.top < b.top \/ (a.top = b.top /\ a.x0 <= b.x0)

\* key=lambda x: x["x0"]
LeqX0(a, b) == a.x0 <= b.x0

KeyLeq(key, a, b) == IF key = "top_x0" THEN LeqTopX0(a, b) ELSE LeqX0(a, b)

\* list.sort(key=...) is stable: w goes behind every element whose key is not
\* greater than its own
RECURSIVE InsertSorted(_, _, _)
InsertSorted(w, sorted, key) ==
  IF sorted = <<>> THEN <<w>>
  ELSE IF KeyLeq(key, sorted[Len(sorted)], w) THEN Append(sorted, w)
  ELSE Append(InsertSorted(w, SubSeq(sorted, 1, Len(sorted) - 1), key),
              sorted[Len(sorted)])

RECURSIVE SortFrom(_, _, _)
SortFrom(ws, sorted, key) ==
  IF ws = <<>> THEN sorted
  ELSE SortFrom(Tail(ws), InsertSorted(Head(ws), sorted, key), key)

\* " ".join([x["text"] for x in current_line]) after current_line.sort(x0)
LineText(current_line) ==
  LET srt == SortFrom(current_line, <<>>, "x0")
  IN Join([i \in 1..Len(srt) |-> srt[i].text], <<" ">>)

Abs(x) == IF x < 0 THEN -x ELSE x

\* the grouping loop comparing each word with the top of the word before it
RECURSIVE GroupLines_lastWordTop(_, _, _, _, _)
GroupLines_lastWordTop(ws, current_line, num, den, lines) ==
  IF ws = <<>>
  THEN (IF current_line # <<>> THEN Append(lines, LineText(current_line)) ELSE lines)
  ELSE
    LET w == Head(ws) IN
    IF den = 0 THEN GroupLines_lastWordTop(Tail(ws), <<w>>, w.top, 1, lines)
    ELSE IF Abs(w.top - num) <= YTol
    THEN GroupLines_lastWordTop(Tail(ws), Append(current_line, w), w.top, 1, lines)
    ELSE GroupLines_lastWordTop(Tail(ws), <<w>>, w.top, 1,
                                Append(lines, LineText(current_line)))

\* the grouping loop; last_top is the fraction num / den (None when den = 0),
\* which its repeated halving keeps exact
RECURSIVE GroupLines(_, _, _, _, _)
GroupLines(ws, current_line, num, den, lines) ==
  IF ws = <<>>
  THEN (IF current_line # <<>> THEN Append(lines, LineText(current_line)) ELSE lines)
  ELSE
    LET w == Head(ws) IN
    IF den = 0 THEN GroupLines(Tail(ws), <<w>>, w.top, 1, lines)
    ELSE IF Abs(w.top * den - num) <= YTol * den
    THEN GroupLines(Tail(ws), Append(current_line, w), num + w.top * den, 2 * den, lines)
    ELSE GroupLines(Tail(ws), <<w>>, w.top, 1, Append(lines, LineText(current_line)))

\* the whitespace that follows position i
RECURSIVE SpaceRun(_, _)
SpaceRun(s, i) ==
  IF i <= Len(s) /\ IsSpace(s[i]) THEN <<s[i]>> \o SpaceRun(s, i + 1) ELSE <<>>

HasNL(run) == \E k \in 1..Len(run) : run[k] = NL

\* fix_hyphenation: re.sub(r"-\s*\n\s*", "", text)
RECURSIVE fix_hyphenation_from(_, _)
fix_hyphenation_from(s, i) ==
  IF i > Len(s) THEN <<>>
  ELSE IF s[i] = "-" /\ HasNL(SpaceRun(s, i + 1))
       THEN fix_hyphenation_from(s, i + 1 + Len(SpaceRun(s, i + 1)))
       ELSE <<s[i]>> \o fix_hyphenation_from(s, i + 1)

\* re.sub(r"-\n", "", text)
RECURSIVE fix_hyphenation_directOnly(_)
fix_hyphenation_directOnly(text) ==
  IF text = <<>> THEN <<>>
  ELSE IF Len(text) >= 2 /\ text[1] = "-" /\ text[2] = NL
       THEN fix_hyphenation_directOnly(SubSeq(text, 3, Len(text)))
       ELSE <<Head(text)>> \o fix_hyphenation_directOnly(Tail(text))

\* fix_hyphenation(text)
fix_hyphenation(text) == fix_hyphenation_from(text, 1)

\* re.sub(r"[ \t]+", " ", text)
RECURSIVE CollapseBlanks(_)
CollapseBlanks(s) ==
  IF s = <<>> THEN <<>>
  ELSE IF Head(s) \in {" ", "\t"}
       THEN IF Len(s) >= 2 /\ s[2] \in {" ", "\t"}
            THEN CollapseBlanks(Tail(s))
            ELSE <<" ">> \o CollapseBlanks(Tail(s))
       ELSE <<Head(s)>> \o CollapseBlanks(Tail(s))

\* re.sub(r"\n{3,}", "\n\n", text)
RECURSIVE CollapseNewlines(_)
CollapseNewlines(s) ==
  IF s = <<>> THEN <<>>
  ELSE IF Len(s) >= 3 /\ s[1] = NL /\ s[2] = NL /\ s[3] = NL
       THEN CollapseNewlines(Tail(s))
       ELSE <<Head(s)>> \o CollapseNewlines(Tail(s))

\* filtered = [w for w in words if not inside_any(bbox of w, table_bboxes)]
FilterWords(words, table_bboxes) ==
  SelectSeq(words, LAMBDA w : ~inside_any(WordBBox(w), table_bboxes, InsideMargin))

\* lines after filtered.sort(key=(top, x0)) and the grouping loop
ReconstructLines(filtered) ==
  GroupLines(SortFrom(filtered, <<>>, "top_x0"), <<>>, 0, 0, <<>>)

\* the text made of lines: joined, hyphenation fixed, blanks and line breaks
\* collapsed, stripped
CleanText(lines) ==
  Strip(CollapseNewlines(CollapseBlanks(fix_hyphenation(Join(lines, <<NL>>)))))

extract_text_without_tables_noFilter(words, table_bboxes) ==
  CleanText(ReconstructLines(words))

\* extract_text_without_tables(plumber_page, table_bboxes): words is what
\* plumber_page.extract_words gives
extract_text_without_tables(words, table_bboxes) ==
  CleanText(ReconstructLines(FilterWords(words, table_bboxes)))

(***************************************************************************)
(* convert_pdf_to_text: the assembled text                                 *)
(*                                                                         *)
(* The Hangul syllables of the labels are written as code point tokens.    *)
(***************************************************************************)
Digits == <<"0", "1", "2", "3", "4", "5", "6", "7", "8", "9">>

\* str(n) for n >= 0
RECURSIVE Decimal(_)
Decimal(n) ==
  IF n < 10 THEN <<Digits[n + 1]>> ELSE Append(Decimal(n \div 10), Digits[(n % 10) + 1])

Page_ == <<"U+D398", "U+C774", "U+C9C0">>
Text_ == <<"U+D14D", "U+C2A4", "U+D2B8">>
Table_ == <<"U+D14C", "U+C774", "U+BE14">>
Count_ == <<"U+AC1C">>

\* the source tag as a str
SourceChars(source) ==
  CASE source = "fitz" -> <<"f", "i", "t", "z">>
    [] source = "camelot-lattice" ->
         <<"c", "a", "m", "e", "l", "o", "t", "-", "l", "a", "t", "t", "i", "c", "e">>
    [] source = "camelot-stream" ->
         <<"c", "a", "m", "e", "l", "o", "t", "-", "s", "t", "r", "e", "a", "m">>

\* f"=== 페이지 {page_info['page']} ===\n\n"
PageMarker(n) ==
  <<"=", "=", "=", " ">> \o Page_ \o <<" ">> \o Decimal(n)
  \o <<" ", "=", "=", "=", NL, NL>>

\* f"[텍스트]\n{page_info['text']}\n\n"
TextBlock(text) == <<"[">> \o Text_ \o <<"]", NL>> \o text \o <<NL, NL>>

\* f"[테이블 {len(page_info['tables'])}개]\n"
TablesLabel(n) == <<"[">> \o Table_ \o <<" ">> \o Decimal(n) \o Count_ \o <<"]", NL>>

\* f"\n--- 테이블 {table_info['table_index']} ({table_info.get('source')}) ---\n"
\* followed by table_info["markdown"] + "\n\n"
TableBlock(table_info) ==
  <<NL, "-", "-", "-", " ">> \o Table_ \o <<" ">> \o Decimal(table_info.table_index)
  \o <<" ", "(">> \o SourceChars(table_info.source) \o <<")", " ", "-", "-", "-", NL>>
  \o table_info.markdown \o <<NL, NL>>

RECURSIVE Concat(_)
Concat(parts) == IF parts = <<>> THEN <<>> ELSE Head(parts) \o Concat(Tail(parts))

\* "=" * 20 + "\n\n"
PageFooter == [i \in 1..20 |-> "="] \o <<NL, NL>>

\* what one iteration of the loop over page_data adds to txt_content
PageBlock(page_info) ==
  PageMarker(page_info.page)
  \o (IF page_info.text # <<>> THEN TextBlock(page_info.text) ELSE <<>>)
  \o (IF page_info.tables # <<>>
      THEN TablesLabel(Len(page_info.tables))
           \o Concat([i \in 1..Len(page_info.tables) |-> TableBlock(page_info.tables[i])])
      ELSE <<>>)
  \o PageFooter

\* txt_content after the loop
AssembleText(page_data) == Concat([i \in 1..Len(page_data) |-> PageBlock(page_data[i])])

(***************************************************************************)
(* RecursiveCharacterTextSplitter(chunk_size, chunk_overlap,               *)
(* separators=["\n\n", "\n", " ", ""]).split_text, with the library's      *)
(* defaults keep_separator=True, strip_whitespace=True, length_function=len*)
(***************************************************************************)
HasPrefixAt(s, i, p) ==
  i + Len(p) - 1 <= Len(s) /\ \A k \in 1..Len(p) : s[i + k - 1] = p[k]

Occurs(s, p) == \E i \in 1..Len(s) : HasPrefixAt(s, i, p)

MinOf(S) == CHOOSE m \in S : \A x \in S : m <= x

\* re.split(f"({sep})", text) with each separator put in front of the piece
\* that follows it: the piece that starts at start, and those behind it; the
\* next separator is looked for skip characters further on
RECURSIVE SplitOn(_, _, _, _)
SplitOn(text, sep, start, skip) ==
  LET hits == {i \in (start + skip)..Len(text) : HasPrefixAt(text, i, sep)}
  IN IF hits = {} THEN <<SubSeq(text, start, Len(text))>>
     ELSE <<SubSeq(text, start, MinOf(hits) - 1)>>
          \o SplitOn(text, sep, MinOf(hits), Len(sep))

\* _split_text_with_regex(text, separator, keep_separator=True)
SplitWithSep(text, sep) ==
  SelectSeq(IF sep = <<>> THEN [k \in 1..Len(text) |-> <<text[k]>>]
            ELSE SplitOn(text, sep, 1, 0),
            LAMBDA piece : piece # <<>>)

\* _join_docs(docs, ""): None is <<>> here, as no chunk is the empty string
JoinDocs(docs) == Strip(Concat(docs))

RECURSIVE SumLen(_)
SumLen(parts) == IF parts = <<>> THEN 0 ELSE Len(Head(parts)) + SumLen(Tail(parts))

\* a loop that pops all of current_doc, keeping nothing as overlap
PopFront_keepNothing(current_doc, len, chunk_size, chunk_overlap) == <<>>

\* the while loop of _merge_splits: current_doc after the pops
RECURSIVE PopFront(_, _, _, _)
PopFront(current_doc, len, chunk_size, chunk_overlap) ==
  LET total == SumLen(current_doc) IN
  IF total > chunk_overlap \/ (total + len > chunk_size /\ total > 0)
  THEN PopFront(Tail(current_doc), len, chunk_size, chunk_overlap)
  ELSE current_doc

\* _merge_splits(splits, ""): the loop takes the splits that still fit behind
\* current_doc, and at the first that does not fit it closes current_doc as a
\* chunk, pops from its front and goes on with that split
RECURSIVE MergeSplits(_, _, _, _, _)
MergeSplits(splits, current_doc, docs, chunk_size, chunk_overlap) ==
  LET total == SumLen(current_doc)
      fits == {m \in 0..Len(splits) :
                 m = 0 \/ total + SumLen(SubSeq(splits, 1, m)) <= chunk_size
                       \/ (m = 1 /\ current_doc = <<>>)}
      n == CHOOSE m \in fits : (m + 1) \notin fits
      cur1 == current_doc \o SubSeq(splits, 1, n)
  IN IF n = Len(splits)
     THEN (IF JoinDocs(cur1) # <<>> THEN Append(docs, JoinDocs(cur1)) ELSE docs)
     ELSE MergeSplits(SubSeq(splits, n + 2, Len(splits)),
                      Append(PopFront(cur1, Len(splits[n + 1]), chunk_size, chunk_overlap),
                             splits[n + 1]),
                      IF JoinDocs(cur1) # <<>> THEN Append(docs, JoinDocs(cur1)) ELSE docs,
                      chunk_size, chunk_overlap)

\* the index of the separator _split_text picks: the first that is "" or
\* occurs in the text
RECURSIVE PickSeparator(_, _, _)
PickSeparator(text, separators, i) ==
  IF i > Len(separators) THEN 0
  ELSE IF separators[i] = <<>> \/ Occurs(text, separators[i]) THEN i
  ELSE PickSeparator(text, separators, i + 1)

RECURSIVE SplitTextRec(_, _, _, _)
RECURSIVE EachSplit(_, _, _, _, _)

\* the loop "for s in splits" of _split_text: the splits shorter than
\* chunk_size in front of the first longer one are its _good_splits, merged
\* when that split is met, or at the end of the loop
EachSplit(splits, final_chunks, new_separators, chunk_size, chunk_overlap) ==
  LET long == {k \in 1..Len(splits) : Len(splits[k]) >= chunk_size} IN
  IF long = {}
  THEN final_chunks
       \o (IF splits # <<>>
           THEN MergeSplits(splits, <<>>, <<>>, chunk_size, chunk_overlap)
           ELSE <<>>)
  ELSE
    LET k == MinOf(long)
        sp == splits[k]
        merged == IF k > 1
                  THEN MergeSplits(SubSeq(splits, 1, k - 1), <<>>, <<>>,
                                   chunk_size, chunk_overlap)
                  ELSE <<>>
        deeper == IF new_separators = <<>> THEN <<sp>>
                  ELSE SplitTextRec(sp, new_separators, chunk_size, chunk_overlap)
    IN EachSplit(SubSeq(splits, k + 1, Len(splits)), final_chunks \o merged \o deeper,
                 new_separators, chunk_size, chunk_overlap)

\* _split_text(text, separators)
SplitTextRec(text, separators, chunk_size, chunk_overlap) ==
  LET i == PickSeparator(text, separators, 1)
      separator == IF i = 0 THEN separators[Len(separators)] ELSE separators[i]
      new_separators == IF i = 0 \/ separators[i] = <<>> THEN <<>>
                        ELSE SubSeq(separators, i + 1, Len(separators))
  IN EachSplit(SplitWithSep(text, separator), <<>>, new_separators,
               chunk_size, chunk_overlap)

Separators == << <<NL, NL>>, <<NL>>, <<" ">>, <<>> >>

\* splitter.split_text(page_content)
split_text(text, chunk_size, chunk_overlap) ==
  SplitTextRec(text, Separators, chunk_size, chunk_overlap)

(***************************************************************************)
(* text_to_documents                                                       *)
(***************************************************************************)
RECURSIVE CountNL(_, _)
CountNL(s, i) == IF i <= Len(s) /\ s[i] = NL THEN 1 + CountNL(s, i + 1) ELSE 0

RECURSIVE DigitRun(_, _)
DigitRun(s, i) ==
  IF i <= Len(s) /\ IsDigit(s[i]) THEN <<s[i]>> \o DigitRun(s, i + 1) ELSE <<>>

Min(a, b) == IF a < b THEN a ELSE b

\* PAGE_SPLIT_RE = \n{0,2}=== 페이지\s*(\d+)\s*===\n{0,2} matched at position i:
\* [ok, group (the digits), next (the position behind the match)]
MarkerAt(s, i) ==
  LET nl == CountNL(s, i)
      j1 == i + nl
      lit == <<"=", "=", "=", " ">> \o Page_
      j2 == j1 + Len(lit)
      j3 == j2 + Len(SpaceRun(s, j2))
      group == DigitRun(s, j3)
      j4 == j3 + Len(group)
      j5 == j4 + Len(SpaceRun(s, j4))
      j6 == j5 + 3
  IN IF nl <= 2 /\ HasPrefixAt(s, j1, lit) /\ group # <<>>
        /\ HasPrefixAt(s, j5, <<"=", "=", "=">>)
     THEN [ok |-> TRUE, group |-> group, next |-> j6 + Min(2, CountNL(s, j6))]
     ELSE [ok |-> FALSE, group |-> <<>>, next |-> i]

\* PAGE_SPLIT_RE.split(text_content): text, group, text, group, ..., text
RECURSIVE SplitPages(_, _)
SplitPages(s, start) ==
  LET hits == {i \in start..Len(s) : MarkerAt(s, i).ok}
  IN IF hits = {} THEN <<SubSeq(s, start, Len(s))>>
     ELSE LET m == MarkerAt(s, MinOf(hits))
          IN <<SubSeq(s, start, MinOf(hits) - 1), m.group>> \o SplitPages(s, m.next)

\* int(digits)
RECURSIVE DecimalValue(_)
DecimalValue(ds) ==
  IF ds = <<>> THEN 0
  ELSE 10 * DecimalValue(SubSeq(ds, 1, Len(ds) - 1))
       + (CHOOSE v \in 0..9 : Digits[v + 1] = ds[Len(ds)])

\* a page number is <<n>>, None is <<>>
NoPage == <<>>

\* match = re.search(r"페이지\s*(\d+)", page_header);
\* page_num = int(match.group(1)) if match else None
PageNumOf(page_header) ==
  LET hits == {i \in 1..Len(page_header) :
                 /\ HasPrefixAt(page_header, i, Page_)
                 /\ DigitRun(page_header,
                             i + 3 + Len(SpaceRun(page_header, i + 3))) # <<>>}
  IN IF hits = {} THEN NoPage
     ELSE LET i == CHOOSE h \in hits : \A g \in hits : h <= g
          IN <<DecimalValue(DigitRun(page_header,
                              i + 3 + Len(SpaceRun(page_header, i + 3))))>>

PageDocs_flagFromIndex(page_header, page_content, block, file_name, chunk_size, chunk_overlap) ==
  IF Strip(page_content) = <<>> THEN <<>>
  ELSE
    LET chunks == split_text(page_content, chunk_size, chunk_overlap)
    IN [idx \in 1..Len(chunks) |->
          [page_content |-> Strip(chunks[idx]),
           metadata |-> [source |-> file_name,
                         page |-> PageNumOf(page_header),
                         chunk_index |-> idx - 1,
                         is_page_split |-> idx > 1],
           block |-> block]]

\* the Documents of one page block; block counts the markers and is not a
\* field of the program's Document: it records which block a chunk was cut from
PageDocs(page_header, page_content, block, file_name, chunk_size, chunk_overlap) ==
  IF Strip(page_content) = <<>> THEN <<>>
  ELSE
    LET chunks == split_text(page_content, chunk_size, chunk_overlap)
    IN [idx \in 1..Len(chunks) |->
          [page_content |-> Strip(chunks[idx]),
           metadata |-> [source |-> file_name,
                         page |-> PageNumOf(page_header),
                         chunk_index |-> idx - 1,
                         is_page_split |-> Len(chunks) > 1],
           block |-> block]]

\* text_to_documents(text_content, file_name, chunk_size, chunk_overlap)
text_to_documents(text_content, file_name, chunk_size, chunk_overlap) ==
  LET parts == SplitPages(text_content, 1)
  IN Concat([k \in 1..((Len(parts) - 1) \div 2) |->
               PageDocs(parts[2 * k], parts[2 * k + 1], k, file_name,
                        chunk_size, chunk_overlap)])

(***************************************************************************)
(* get_text_and_tables and convert_pdf_to_text                             *)
(***************************************************************************)
\* [t["bbox"] for t in table_items if t.get("bbox") is not None]
TableBBoxes(table_items) ==
  LET with == SelectSeq(table_items, LAMBDA t : t.bbox # NoBBox)
  IN [i \in 1..Len(with) |-> with[i].bbox]

\* page_data for one page, from the page's table_items and words
PageData(page_index0, table_items, words) ==
  LET text == remove_table_line_duplicates(
                extract_text_without_tables(words, TableBBoxes(table_items)),
                table_items)
  IN [page |-> page_index0 + 1,
      text |-> text,
      tables |-> [i \in 1..Len(table_items) |->
                    [table_index |-> i,
                     markdown |-> table_items[i].markdown,
                     raw_data |-> table_items[i].raw_data,
                     source |-> table_items[i].source,
                     bbox |-> table_items[i].bbox]]]

ChunkSize == 800
ChunkOverlap == 100

FileName == "portfolio.pdf"

(***************************************************************************)
(* Inputs of the stand-alone specifications                                *)
(***************************************************************************)
MaxTextLen == 4
MaxDedupLines == 2
MaxMdRows == 2
MaxMdCols == 2

SeqsUpTo(S, n) == UNION {[1..k -> S] : k \in 0..n}

DedupAlphabet == {"a", "1", ",", " ", NL}

DedupLineVocab ==
  { <<"a", " ", "1">>, <<"a", " ", " ", "1", " ">>, <<"1", ",", "1", " ", "a">>,
    <<"U+FF11", "1", " ", "a">>, <<"a", " ", "1", " ", "a">>, <<"a">>, <<>> }

DedupTexts ==
  SeqsUpTo(DedupAlphabet, MaxTextLen)
  \cup {Join(ls, <<NL>>) : ls \in SeqsUpTo(DedupLineVocab, MaxDedupLines)}
  \cup { <<"a", " ", "1", CR, NL, "a">>, <<"a", CR, "a", " ", "1">> }

RawPair == << <<<<"a">>, <<"1">>>> >>
RawSingle == << <<<<"a">>>> >>
RawComma == << <<<<"1", ",", "1">>, <<"a">>>>, <<None_, <<>>>> >>
RawPadded == << <<<<" ", "a", " ">>, None_, <<"1">>, <<>>>> >>
RawThree == << <<<<"a">>, <<"1">>, <<"a">>>> >>
RawGrid == << <<<<"a">>, <<"1">>>>, <<<<"1">>, <<"a">>>> >>

Lattice(raw) == TableItem(NoBBox, raw, "camelot-lattice")

DedupTableLists ==
  { <<>>, <<Lattice(RawPair)>>, <<Lattice(RawSingle)>>, <<Lattice(RawComma)>>,
    <<Lattice(RawPadded)>>, <<Lattice(<<>>), Lattice(RawThree)>>,
    <<Lattice(RawSingle), Lattice(RawPair)>>,
    <<Lattice(RawPair), Lattice(RawThree)>> }

MdCells == { <<"a", NL, "|">>, None_, <<" ">> }

\* grids with a carriage return in a cell, alone and before a line feed
MdTablesCR ==
  { << <<<<"a", CR, "1">>, <<"|">>>> >>,
    << <<<<"a">>, <<"1">>>>, <<<<"a", CR, NL, "1">>>> >> }

MdTables == SeqsUpTo(SeqsUpTo(MdCells, MaxMdCols), MaxMdRows) \cup MdTablesCR

MaxCands == 2

TableBBox == <<0, 0, 40, 40>>
RawBlank == << <<<<>>, None_>>, <<<<" ">>>> >>

Cand(bbox, data) == [bbox |-> bbox, data |-> data]

FitzCands ==
  { Cand(TableBBox, RawPair), Cand(TableBBox, RawBlank),
    Cand(NoBBox, RawPair), Cand(TableBBox, NoData) }

\* the height of the page, in half points
PageHeight == 200

\* a rectangle given from the bottom-left corner of the page, as camelot
\* gives a table's _bbox (x1, y1, x2, y2 in PDF space), for the rectangle
\* that is bbox from the top-left corner
FromBottomLeft(bbox) == <<bbox[1], PageHeight - bbox[4], bbox[3], PageHeight - bbox[2]>>

\* what lattice reports: the table of TableBBox with its _bbox, a blank table
LatticeCands == { Cand(FromBottomLeft(TableBBox), RawPair), Cand(NoBBox, RawBlank) }

\* what stream reports: a table that has neither _bbox nor bbox, a blank table
CamelotCands == { Cand(NoBBox, RawPair), Cand(NoBBox, RawBlank) }

\* what a backend may do: report candidates and return, fail in the call, or
\* fail while its last candidate is being processed (the candidates behind
\* the one that fails are never looked at, so they are left out)
Outcomes(cands) ==
  {[tables |-> ts, raises |-> FALSE, done |-> Len(ts)] :
     ts \in SeqsUpTo(cands, MaxCands)}
  \cup {[tables |-> <<>>, raises |-> TRUE, done |-> 0]}
  \cup {[tables |-> ts, raises |-> TRUE, done |-> Len(ts) - 1] :
          ts \in SeqsUpTo(cands, MaxCands) \ {<<>>}}

NoTables == [tables |-> <<>>, raises |-> FALSE, done |-> 0]

DetectInputs ==
  {[open_ok |-> TRUE, fitz |-> f, lattice |-> l, stream |-> st] :
     f \in Outcomes(FitzCands), l \in Outcomes(LatticeCands),
     st \in Outcomes(CamelotCands)}
  \cup {[open_ok |-> FALSE, fitz |-> NoTables, lattice |-> NoTables,
         stream |-> NoTables]}

MaxPages == 2

Word(text, x0, top) == [text |-> text, x0 |-> x0, x1 |-> x0 + 8, top |-> top, bottom |-> top + 10]

\* the words of a line "a 1" and of a line "1 a" under it, both inside
\* TableBBox, and a word "a" below the table
InTableWords ==
  <<Word(<<"1">>, 20, 10), Word(<<"a">>, 4, 10),
    Word(<<"1">>, 4, 24), Word(<<"a">>, 20, 24)>>

\* the two words of a line under the table that reads like a page marker:
\* "===" and "\ud398\uc774\uc9c09==="
MarkerWords ==
  <<Word(<<"=", "=", "=">>, 4, 60), Word(Page_ \o <<"9", "=", "=", "=">>, 20, 60)>>

PageWords ==
  { <<>>, InTableWords, Append(InTableWords, Word(<<"a">>, 4, 60)), MarkerWords }

Returns(tables) == [tables |-> tables, raises |-> FALSE, done |-> Len(tables)]

\* what the three backends give for a page: one or two tables found by
\* fitz, or nothing from fitz and then whatever the camelot flavors give
PageBackends ==
  {[fitz |-> f, lattice |-> NoTables, stream |-> NoTables] :
     f \in {Returns(<<Cand(TableBBox, RawPair)>>),
            Returns(<<Cand(TableBBox, RawGrid)>>),
            Returns(<<Cand(TableBBox, RawBlank)>>),
            Returns(<<Cand(TableBBox, RawThree), Cand(TableBBox, RawGrid)>>)}}
  \cup {[fitz |-> NoTables, lattice |-> l, stream |-> st] :
          l \in {NoTables, Returns(<<Cand(NoBBox, RawPair)>>)},
          st \in {NoTables, Returns(<<Cand(NoBBox, RawThree)>>)}}

PageInputs ==
  {[open_ok |-> TRUE, fitz |-> b.fitz, lattice |-> b.lattice, stream |-> b.stream,
    words |-> ws] : b \in PageBackends, ws \in PageWords}
  \cup {[open_ok |-> FALSE, fitz |-> NoTables, lattice |-> NoTables,
         stream |-> NoTables, words |-> <<>>]}

(***************************************************************************)
(* SpecDedup: remove_table_line_duplicates applied once and then again to  *)
(* its own result                                                          *)
(***************************************************************************)
MdIdle == m_pc = "idle" /\ m_data = <<>> /\ m_md = <<>>
DedupIdle ==
  d_pc = "idle" /\ d_text = <<>> /\ d_tables = <<>> /\ d_out = <<>> /\ d_out2 = <<>>
DetectIdle == t_pc = "idle" /\ t_in = <<>> /\ t_res = <<>>
DocIdle ==
  /\ pc = "idle" /\ n_pages = 0 /\ page_index = 0 /\ page_in = <<>>
  /\ all_page_data = <<>> /\ txt_content = <<>> /\ documents = <<>>
  /\ call_result = "idle"
ChunkIdle ==
  /\ k_pc = "idle" /\ k_pages = <<>> /\ k_size = 0 /\ k_overlap = 0
  /\ k_text = <<>> /\ k_docs = <<>>
IouIdle ==
  /\ r_pc = "idle" /\ r_a = <<>> /\ r_b = <<>> /\ r_ab = <<>> /\ r_ba = <<>>
  /\ r_aa = <<>>
HyphenIdle == h_pc = "idle" /\ h_text = <<>> /\ h_out = <<>>
ExtractIdle ==
  /\ x_pc = "idle" /\ x_words = <<>> /\ x_items = <<>> /\ x_filtered = <<>>
  /\ x_lines = <<>> /\ x_text = <<>> /\ x_out = <<>>
RestIdle == ChunkIdle /\ IouIdle /\ HyphenIdle /\ ExtractIdle

DedupInit ==
  /\ d_pc = "init"
  /\ d_text \in DedupTexts
  /\ d_tables \in DedupTableLists
  /\ d_out = <<>>
  /\ d_out2 = <<>>
  /\ MdIdle
  /\ DetectIdle
  /\ DocIdle
  /\ RestIdle

DedupOnce ==
  /\ d_pc = "init"
  /\ d_out' = remove_table_line_duplicates(d_text, d_tables)
  /\ d_pc' = "once"
  /\ UNCHANGED <<d_text, d_tables, d_out2, mdVars, detectVars, docVars>>
  /\ UNCHANGED restVars

DedupTwice ==
  /\ d_pc = "once"
  /\ d_out2' = remove_table_line_duplicates(d_out, d_tables)
  /\ d_pc' = "twice"
  /\ UNCHANGED <<d_text, d_tables, d_out, mdVars, detectVars, docVars>>
  /\ UNCHANGED restVars

DedupNext == DedupOnce \/ DedupTwice

SpecDedup == DedupInit /\ [][DedupNext]_vars

(***************************************************************************)
(* SpecMd: convert_table_to_markdown applied to a cell grid                *)
(***************************************************************************)
MdInit ==
  /\ m_pc = "init"
  /\ m_data \in MdTables
  /\ m_md = <<>>
  /\ DedupIdle
  /\ DetectIdle
  /\ DocIdle
  /\ RestIdle

MdRender ==
  /\ m_pc = "init"
  /\ m_md' = convert_table_to_markdown(m_data, 1)
  /\ m_pc' = "done"
  /\ UNCHANGED <<m_data, dedupVars, detectVars, docVars>>
  /\ UNCHANGED restVars

MdNext == MdRender

SpecMd == MdInit /\ [][MdNext]_vars

(***************************************************************************)
(* SpecDetect: extract_tables_with_fitz_and_camelot on one page            *)
(***************************************************************************)
DetectInit ==
  /\ t_pc = "init"
  /\ t_in \in DetectInputs
  /\ t_res = <<>>
  /\ DedupIdle
  /\ MdIdle
  /\ DocIdle
  /\ RestIdle

DetectTables ==
  /\ t_pc = "init"
  /\ t_res' = extract_tables_with_fitz_and_camelot(t_in.open_ok, t_in.fitz,
                                                   t_in.lattice, t_in.stream)
  /\ t_pc' = IF t_res'.raised THEN "raised" ELSE "returned"
  /\ UNCHANGED <<t_in, dedupVars, mdVars, docVars>>
  /\ UNCHANGED restVars

DetectNext == DetectTables

SpecDetect == DetectInit /\ [][DetectNext]_vars

(***************************************************************************)
(* Spec: convert_pdf_to_text(pdf_stream, file_name) on a document of       *)
(* n_pages pages                                                           *)
(***************************************************************************)
Init ==
  /\ pc = "pages"
  /\ n_pages \in 1..MaxPages
  /\ page_index = 0
  /\ page_in = <<>>
  /\ all_page_data = <<>>
  /\ txt_content = <<>>
  /\ documents = <<>>
  /\ call_result = "running"
  /\ DedupIdle
  /\ MdIdle
  /\ DetectIdle
  /\ RestIdle

\* one iteration of the page loop of get_text_and_tables
ProcessPage ==
  /\ pc = "pages"
  /\ page_index < n_pages
  /\ \E in \in PageInputs :
       LET r == extract_tables_with_fitz_and_camelot(in.open_ok, in.fitz,
                                                     in.lattice, in.stream)
       IN /\ ~r.raised
          /\ page_in' = Append(page_in, in)
          /\ all_page_data' =
               Append(all_page_data, PageData(page_index, r.table_items, in.words))
  /\ page_index' = page_index + 1
  /\ UNCHANGED <<pc, n_pages, txt_content, documents, call_result>>
  /\ UNCHANGED <<dedupVars, mdVars, detectVars>>
  /\ UNCHANGED restVars

\* the iteration in which fitz.open or doc[page_index] raises: nothing up to
\* convert_pdf_to_text's caller catches it
PageRaises ==
  /\ pc = "pages"
  /\ page_index < n_pages
  /\ \E in \in PageInputs :
       /\ extract_tables_with_fitz_and_camelot(in.open_ok, in.fitz,
                                               in.lattice, in.stream).raised
       /\ page_in' = Append(page_in, in)
  /\ pc' = "raised"
  /\ call_result' = "backend exception"
  /\ UNCHANGED <<n_pages, page_index, all_page_data, txt_content, documents>>
  /\ UNCHANGED <<dedupVars, mdVars, detectVars>>
  /\ UNCHANGED restVars

\* the loop of convert_pdf_to_text over page_data
Assemble ==
  /\ pc = "pages"
  /\ page_index = n_pages
  /\ txt_content' = AssembleText(all_page_data)
  /\ pc' = "assembled"
  /\ UNCHANGED <<n_pages, page_index, page_in, all_page_data, documents, call_result>>
  /\ UNCHANGED <<dedupVars, mdVars, detectVars>>
  /\ UNCHANGED restVars

\* documents = text_to_documents(txt_content, file_name, chunk_size=800,
\* chunk_overlap=100); return documents
Chunk ==
  /\ pc = "assembled"
  /\ documents' = text_to_documents(txt_content, FileName, ChunkSize, ChunkOverlap)
  /\ pc' = "done"
  /\ call_result' = "returned"
  /\ UNCHANGED <<n_pages, page_index, page_in, all_page_data, txt_content>>
  /\ UNCHANGED <<dedupVars, mdVars, detectVars>>
  /\ UNCHANGED restVars

Next == ProcessPage \/ PageRaises \/ Assemble \/ Chunk

Spec == Init /\ [][Next]_vars

(***************************************************************************)
(* Claims on the deduplicator                                              *)
(***************************************************************************)
AllRows(table_items) ==
  UNION {{table_items[i].raw_data[j] : j \in 1..Len(table_items[i].raw_data)} :
           i \in 1..Len(table_items)}

\* the normalized single-space join of a row's non-blank cells
RowLine(row) == normalize_for_compare(Join(NonBlankCells(row), <<" ">>))

RowsWithAtLeast(table_items, n) ==
  {r \in AllRows(table_items) : Len(NonBlankCells(r)) >= n}

NoLineEqualsRowOf(text, rows) ==
  \A r \in rows : \A k \in 1..Len(SplitLines(text)) :
     normalize_for_compare(SplitLines(text)[k]) # RowLine(r)

NonBlankLines(text) == SelectSeq(SplitLines(text), LAMBDA ln : Strip(ln) # <<>>)

\* the line-set the claim describes: one entry per row with >= 2 non-blank cells
ClaimLineSet(table_items) == {RowLine(r) : r \in RowsWithAtLeast(table_items, 2)}

\* C4: a non-blank line is removed iff its normalized form equals an entry of
\* the line-set (rows with at least 2 non-blank cells); all other non-blank
\* lines are kept unchanged and in order, also those that only contain a row.
C4_ExactWholeLineMatch ==
  d_pc = "once" =>
    NonBlankLines(d_out) =
      SelectSeq(NonBlankLines(d_text),
                LAMBDA ln : normalize_for_compare(ln) \notin ClaimLineSet(d_tables))

C4_Witness ==
  /\ d_pc = "once"
  /\ Len(NonBlankLines(d_out)) = 1
  /\ Len(NonBlankLines(d_text)) = 2
  /\ \E e \in ClaimLineSet(d_tables) :
       /\ Contains(normalize_for_compare(NonBlankLines(d_out)[1]), e)
       /\ normalize_for_compare(NonBlankLines(d_out)[1]) # e

\* C5: deduplicating already deduplicated text changes nothing.
C5_Idempotent == d_pc = "twice" => d_out2 = d_out

C5_Witness ==
  d_pc = "twice" /\ d_out # d_text /\ d_out # <<>> /\ Len(SplitLines(d_out)) >= 2

(***************************************************************************)
(* Claims on the markdown renderer                                         *)
(***************************************************************************)
\* the cells of one rendered line: the text between pipes that no backslash
\* precedes
RECURSIVE PipeSplit(_, _, _)
PipeSplit(line, i, cur) ==
  IF i > Len(line) THEN <<cur>>
  ELSE IF line[i] = "|" /\ (i = 1 \/ line[i - 1] # "\\")
       THEN <<cur>> \o PipeSplit(line, i + 1, <<>>)
       ELSE PipeSplit(line, i + 1, Append(cur, line[i]))

\* "| x | y |" has the cells x, y: what lies before the first and after the
\* last pipe is not a cell
LineCells(line) ==
  LET parts == PipeSplit(line, 1, <<>>) IN SubSeq(parts, 2, Len(parts) - 1)

\* the lines the renderer joined with "\n"
RECURSIVE SplitNL(_)
SplitNL(s) ==
  LET nl == {i \in 1..Len(s) : s[i] = NL}
  IN IF nl = {} THEN <<s>>
     ELSE <<SubSeq(s, 1, MinOf(nl) - 1)>> \o SplitNL(SubSeq(s, MinOf(nl) + 1, Len(s)))

RawRowNonBlank(row) ==
  \E j \in 1..Len(row) : row[j] # None_ /\ Strip(row[j]) # <<>>

RawNonBlankRows(table_data) == SelectSeq(table_data, RawRowNonBlank)

\* C10: with at least one non-blank row, header, separator and every body line
\* have exactly C cells, C the longest non-blank row; the separator has C
\* dash groups.
C10_UniformColumnCount ==
  (m_pc = "done" /\ RawNonBlankRows(m_data) # <<>>) =>
    LET C == Max({Len(RawNonBlankRows(m_data)[i]) :
                    i \in 1..Len(RawNonBlankRows(m_data))})
        lines == SplitNL(m_md)
    IN /\ Len(lines) >= 2
       /\ \A k \in 1..Len(lines) : Len(LineCells(lines[k])) = C
       /\ \A j \in 1..C : Strip(LineCells(lines[2])[j]) = Dashes

C10_Witness ==
  /\ m_pc = "done"
  /\ Len(SplitNL(m_md)) >= 3
  /\ \E i, k \in 1..Len(RawNonBlankRows(m_data)) :
       Len(RawNonBlankRows(m_data)[i]) < Len(RawNonBlankRows(m_data)[k])

(***************************************************************************)
(* Claims on the table detector                                            *)
(***************************************************************************)
Strategies(attempts) == [k \in 1..Len(attempts) |-> attempts[k].strategy]

IsPrefix(p, q) == Len(p) <= Len(q) /\ SubSeq(q, 1, Len(p)) = p

\* C6: the strategies run in the order fitz, lattice, stream, each at most
\* once; lattice runs only if fitz kept no table, and stream runs only if
\* lattice produced no non-empty table.
C6_OrderedFallback ==
  t_pc = "returned" =>
    /\ IsPrefix(Strategies(t_res.attempts), <<"fitz", "lattice", "stream">>)
    /\ Len(t_res.attempts) >= 2 => t_res.attempts[1].kept = 0
    /\ Len(t_res.attempts) >= 3 => t_res.attempts[2].kept = 0

\* C7: an exception of a strategy is caught and the chain goes on to the next
\* strategy; if all three strategies raise the call returns an empty list.
C7_StrategyFaultsAbsorbed ==
  (t_pc # "init" /\ t_in.open_ok) =>
    /\ t_pc = "returned"
    /\ \A k \in 1..Len(t_res.attempts) :
         (t_res.attempts[k].raised /\ k < 3) => Len(t_res.attempts) > k
    /\ (Len(t_res.attempts) = 3 /\ \A k \in 1..3 : t_res.attempts[k].raised)
         => t_res.table_items = <<>>

ItemIsBlank(item) ==
  \A i \in 1..Len(item.raw_data) : \A j \in 1..Len(item.raw_data[i]) :
     item.raw_data[i][j] = None_ \/ Strip(item.raw_data[i][j]) = <<>>

\* C9: no returned TableItem, of any strategy, has only blank cells, and so
\* none has empty markdown.
C9_NoBlankTableReturned ==
  t_pc = "returned" =>
    \A k \in 1..Len(t_res.table_items) :
       /\ ~ItemIsBlank(t_res.table_items[k])
       /\ t_res.table_items[k].markdown # <<>>

(***************************************************************************)
(* Claims on the whole conversion                                          *)
(***************************************************************************)
\* the text extractor gave no text and the detector no table
PageIsEmpty(page_info) == page_info.text = <<>> /\ page_info.tables = <<>>

\* C1: if every page yields empty text and no table, convert_pdf_to_text
\* signals EmptyCorpus instead of returning a list of Documents.
C1_EmptyCorpusRaised ==
  (pc = "done" /\ \A k \in 1..Len(all_page_data) : PageIsEmpty(all_page_data[k]))
    => call_result = "EmptyCorpus"

C8_MalformedPageAbsorbed ==
  /\ pc # "raised"
  /\ pc \in {"assembled", "done"} => Len(all_page_data) = n_pages

(***************************************************************************)
(* SpecChunk: text_to_documents on an assembled text, with the chunk_size  *)
(* and chunk_overlap its caller passes                                     *)
(***************************************************************************)
OldIdle == DedupIdle /\ MdIdle /\ DetectIdle /\ DocIdle
oldVars == <<dedupVars, mdVars, detectVars, docVars>>

MaxChunkPages == 2

\* page texts as extract_text_without_tables leaves them: words joined by
\* single spaces, lines by single line breaks
ChunkTexts ==
  { <<>>, <<"a", " ", "1">>,
    <<"a", "a", " ", "b", "b", NL, "c", "c", " ", "d", "d", " ", "e", "e", NL,
      "f", "f", "-", "g", "g", "h", "h", "i", "i", "j", "j", "k", "k", "l", "l">> }

ChunkTables == { <<>>, <<TableItem(TableBBox, RawGrid, "fitz")>> }

\* the page records of a document of n pages
ChunkPageData(n) ==
  {[i \in 1..n |-> [text |-> tt[i][1]] @@ PageData(i - 1, tt[i][2], <<>>)] :
     tt \in [1..n -> ChunkTexts \X ChunkTables]}

\* <<chunk_size, chunk_overlap>>
ChunkParams == { <<12, 3>>, <<30, 5>>, <<ChunkSize, ChunkOverlap>> }

\* a page text of n characters: words of 99 characters with single spaces
\* between them
LongText(n) == [i \in 1..n |-> IF i % 100 = 0 THEN " " ELSE "a"]

\* texts with which the page block is as long as the chunk size that
\* convert_pdf_to_text passes, up to three characters longer, and much longer
\* (label and footer take 28 characters of a block, and 30 of the last one)
LongTexts ==
  {LongText(n) : n \in {ChunkSize - 30, ChunkSize - 29, ChunkSize - 28,
                        ChunkSize - 27, ChunkSize + 100}}

\* documents of such a page, alone, in front of a short page and behind one
LongPageData ==
  {<<[text |-> t] @@ PageData(0, <<>>, <<>>)>> : t \in LongTexts}
  \cup {<<[text |-> t] @@ PageData(0, <<>>, <<>>),
          [text |-> <<"a", " ", "1">>] @@ PageData(1, <<>>, <<>>)>> : t \in LongTexts}
  \cup {<<[text |-> <<"a", " ", "1">>] @@ PageData(0, <<>>, <<>>),
          [text |-> t] @@ PageData(1, <<>>, <<>>)>> : t \in LongTexts}

ChunkInit ==
  /\ k_pc = "init"
  /\ \/ /\ k_pages \in UNION {ChunkPageData(n) : n \in 1..MaxChunkPages}
        /\ \E cp \in ChunkParams : k_size = cp[1] /\ k_overlap = cp[2]
     \/ /\ k_pages \in LongPageData
        /\ k_size = ChunkSize
        /\ k_overlap = ChunkOverlap
  /\ k_text = AssembleText(k_pages)
  /\ k_docs = <<>>
  /\ OldIdle
  /\ IouIdle
  /\ HyphenIdle
  /\ ExtractIdle

TextToDocuments ==
  /\ k_pc = "init"
  /\ k_docs' = text_to_documents(k_text, FileName, k_size, k_overlap)
  /\ k_pc' = "done"
  /\ UNCHANGED <<k_pages, k_size, k_overlap, k_text>>
  /\ UNCHANGED <<oldVars, iouVars, hyphenVars, extractVars>>

ChunkNext == TextToDocuments

SpecChunk == ChunkInit /\ [][ChunkNext]_vars

(***************************************************************************)
(* SpecIoU: rect_iou on two rectangles, in both argument orders, and on a  *)
(* rectangle and itself                                                    *)
(***************************************************************************)
MaxCoord == 3

\* every <<x0, y0, x1, y1>> on the grid: proper, degenerate (zero width or
\* height) and inverted (x1 < x0 or y1 < y0) rectangles
Rects == (0..MaxCoord) \X (0..MaxCoord) \X (0..MaxCoord) \X (0..MaxCoord)

IouInit ==
  /\ r_pc = "init"
  /\ r_a \in Rects
  /\ r_b \in Rects
  /\ r_ab = <<>>
  /\ r_ba = <<>>
  /\ r_aa = <<>>
  /\ OldIdle
  /\ ChunkIdle
  /\ HyphenIdle
  /\ ExtractIdle

RectIou ==
  /\ r_pc = "init"
  /\ r_ab' = rect_iou(r_a, r_b)
  /\ r_ba' = rect_iou(r_b, r_a)
  /\ r_aa' = rect_iou(r_a, r_a)
  /\ r_pc' = "done"
  /\ UNCHANGED <<r_a, r_b>>
  /\ UNCHANGED <<oldVars, chunkVars, hyphenVars, extractVars>>

IouNext == RectIou

SpecIoU == IouInit /\ [][IouNext]_vars

(***************************************************************************)
(* SpecHyphen: fix_hyphenation on a text                                   *)
(***************************************************************************)
MaxHyphenLen == 5

HyphenAlphabet == {"a", "-", " ", NL}

ExamNLple == <<"e", "x", "a", "m", "-", NL, "p", "l", "e">>

HyphenTexts ==
  SeqsUpTo(HyphenAlphabet, MaxHyphenLen)
  \cup { ExamNLple,
         <<"a", "-", " ", CR, NL, "\t", "a">>,
         <<"a", " ", "-", NL, NL, "-", "-", " ", NL, " ", "a", "-", CR, "a">> }

HyphenInit ==
  /\ h_pc = "init"
  /\ h_text \in HyphenTexts
  /\ h_out = <<>>
  /\ OldIdle
  /\ ChunkIdle
  /\ IouIdle
  /\ ExtractIdle

FixHyphenation ==
  /\ h_pc = "init"
  /\ h_out' = fix_hyphenation(h_text)
  /\ h_pc' = "done"
  /\ UNCHANGED h_text
  /\ UNCHANGED <<oldVars, chunkVars, iouVars, extractVars>>

HyphenNext == FixHyphenation

SpecHyphen == HyphenInit /\ [][HyphenNext]_vars

(***************************************************************************)
(* SpecExtract: the text of one page as the page loop of                   *)
(* get_text_and_tables computes it from the page's table_items and words   *)
(***************************************************************************)
MaxWords == 3

\* a table box of 20pt x 20pt at (5pt, 5pt)
InnerBBox == <<10, 10, 50, 50>>

\* words of 4pt x 5pt: well inside InnerBBox, flush with its left and top
\* edge, reaching 0.5pt out of it to the left, reaching 1pt out of it, far
\* to the right of it on the same line, below it, and two words 3pt and 5pt
\* under the top of the first, right and left of the table
ExtractWordPool ==
  { Word(<<"a">>, 20, 20), Word(<<"1">>, 10, 10), Word(<<"b">>, 9, 20),
    Word(<<"c">>, 8, 20), Word(<<"d">>, 60, 22), Word(<<"a">>, 20, 80),
    Word(<<"e">>, 70, 26), Word(<<"f">>, 4, 30) }

ExtractWords == SeqsUpTo(ExtractWordPool, MaxWords)

\* the table list of the page: none, a fitz table, a camelot table without
\* bbox, a camelot table with bbox, each with the row ["a", "1"], and a list
\* of a table with bbox and one without
ExtractItems ==
  { <<>>,
    <<TableItem(InnerBBox, RawPair, "fitz")>>,
    <<TableItem(NoBBox, RawPair, "camelot-lattice")>>,
    <<TableItem(NoBBox, RawSingle, "camelot-stream"),
      TableItem(InnerBBox, RawPair, "camelot-stream")>> }

ExtractInit ==
  /\ x_pc = "init"
  /\ x_words \in ExtractWords
  /\ x_items \in ExtractItems
  /\ x_filtered = <<>>
  /\ x_lines = <<>>
  /\ x_text = <<>>
  /\ x_out = <<>>
  /\ OldIdle
  /\ ChunkIdle
  /\ IouIdle
  /\ HyphenIdle

\* table_bboxes = [...]; text = extract_text_without_tables(...);
\* text = remove_table_line_duplicates(text, table_items)
ExtractText ==
  /\ x_pc = "init"
  /\ x_filtered' = FilterWords(x_words, TableBBoxes(x_items))
  /\ x_lines' = ReconstructLines(x_filtered')
  /\ x_text' = extract_text_without_tables(x_words, TableBBoxes(x_items))
  /\ x_out' = remove_table_line_duplicates(x_text', x_items)
  /\ x_pc' = "done"
  /\ UNCHANGED <<x_words, x_items>>
  /\ UNCHANGED <<oldVars, chunkVars, iouVars, hyphenVars>>

ExtractNext == ExtractText

SpecExtract == ExtractInit /\ [][ExtractNext]_vars

(***************************************************************************)
(* Claims about the Documents of a page                                    *)
(***************************************************************************)
\* s holds a string that PAGE_SPLIT_RE matches
HasMarker(s) == \E i \in 1..Len(s) : s[i] = "=" /\ MarkerAt(s, i).ok

\* no text of the pages reads like a page marker, so that the k-th block of
\* the assembled text is the block of the k-th page
MarkerFree(page_data) ==
  \A k \in 1..Len(page_data) : ~HasMarker(page_data[k].text)

\* the Documents cut from the k-th page block, in list order
DocsOfBlock(docs, k) == SelectSeq(docs, LAMBDA d : d.block = k)

\* the word box lies within the table box
WithinBox(w, tb) == w.x0 >= tb[1] /\ w.x1 <= tb[3] /\ w.top >= tb[2] /\ w.bottom <= tb[4]

\* the k-th page holds tables, each detected with a bbox and with a non-blank
\* cell, and every word of the page lies within one of them
OnlyTablePage(k) ==
  /\ all_page_data[k].tables # <<>>
  /\ \A i \in 1..Len(all_page_data[k].tables) :
        /\ all_page_data[k].tables[i].bbox # NoBBox
        /\ NonBlankRows(TrimRows(all_page_data[k].tables[i].raw_data)) # <<>>
  /\ page_in[k].words # <<>>
  /\ \A j \in 1..Len(page_in[k].words) :
        \E i \in 1..Len(all_page_data[k].tables) :
           WithinBox(page_in[k].words[j], all_page_data[k].tables[i].bbox)

\* line is one of the lines of text
HasLine(text, line) ==
  \E i \in 1..Len(text) :
     /\ HasPrefixAt(text, i, line)
     /\ (i = 1 \/ text[i - 1] = NL)
     /\ (i + Len(line) > Len(text) \/ text[i + Len(line)] = NL)

\* the markdown table with row 0 as header and the remaining rows as body rows
HeaderAndRemainingRows(raw_data) ==
  LET rows0 == NonBlankRows(TrimRows(raw_data))
      width == Max({Len(rows0[i]) : i \in 1..Len(rows0)})
      rows == [i \in 1..Len(rows0) |-> PadRow(rows0[i], width)]
  IN Join(<<MdLine([j \in 1..width |-> esc(rows[1][j])]),
            MdLine([j \in 1..width |-> Dashes])>>
          \o [i \in 1..(Len(rows) - 1) |->
                MdLine([j \in 1..width |-> esc(rows[i + 1][j])])],
          <<NL>>)

\* C11: a page that holds only tables detected with their bbox, and no word
\* outside them, yields exactly one Document; the Document holds each table
\* as markdown (row 0 as header line, separator line, one body line for each
\* remaining row, then the blank line that ends the table) and no line equal
\* to the space-joined cells of a table row
C11_OnlyTablePageDocument ==
  pc = "done" =>
    \A k \in 1..Len(all_page_data) :
       OnlyTablePage(k) =>
         /\ Len(DocsOfBlock(documents, k)) = 1
         /\ \A i \in 1..Len(all_page_data[k].tables) :
               /\ Occurs(DocsOfBlock(documents, k)[1].page_content,
                           <<"-", "-", "-", NL>>
                           \o HeaderAndRemainingRows(all_page_data[k].tables[i].raw_data)
                           \o <<NL, NL>>)
               /\ \A r \in 1..Len(all_page_data[k].tables[i].raw_data) :
                     NonBlankCells(all_page_data[k].tables[i].raw_data[r]) # <<>> =>
                       ~HasLine(DocsOfBlock(documents, k)[1].page_content,
                                Join(NonBlankCells(all_page_data[k].tables[i].raw_data[r]),
                                     <<" ">>))

\* the same statement for the tables that have at least two non-blank rows,
\* in a document none of whose texts reads like a page marker
C11_TwoRowTablePageDocument ==
  (pc = "done" /\ MarkerFree(all_page_data)) =>
    \A k \in 1..Len(all_page_data) :
       (OnlyTablePage(k)
        /\ \A i \in 1..Len(all_page_data[k].tables) :
              Len(NonBlankRows(TrimRows(all_page_data[k].tables[i].raw_data))) >= 2) =>
         /\ Len(DocsOfBlock(documents, k)) = 1
         /\ \A i \in 1..Len(all_page_data[k].tables) :
               Occurs(DocsOfBlock(documents, k)[1].page_content,
                        <<"-", "-", "-", NL>>
                        \o HeaderAndRemainingRows(all_page_data[k].tables[i].raw_data)
                        \o <<NL, NL>>)

\* what the Assembler puts under a page's marker according to the design:
\* text label and text, tables label and each table's markdown
LabelledBlock(page_info) ==
  (IF page_info.text # <<>> THEN TextBlock(page_info.text) ELSE <<>>)
  \o (IF page_info.tables # <<>>
      THEN TablesLabel(Len(page_info.tables))
           \o Concat([i \in 1..Len(page_info.tables) |-> TableBlock(page_info.tables[i])])
      ELSE <<>>)

\* the longest overlap, of at most max characters, of the end of a with the
\* start of b
OverlapLen(a, b, max) ==
  Max({m \in 0..Min(max, Min(Len(a), Len(b))) :
         SubSeq(a, Len(a) - m + 1, Len(a)) = SubSeq(b, 1, m)})

\* the chunks put one behind the other, the overlap of each with what
\* precedes it removed
RECURSIVE GlueChunks(_, _, _)
GlueChunks(chunks, glued, max) ==
  IF chunks = <<>> THEN glued
  ELSE GlueChunks(Tail(chunks),
                  glued \o SubSeq(Head(chunks), OverlapLen(glued, Head(chunks), max) + 1,
                                  Len(Head(chunks))),
                  max)

PageContents(docs, k) ==
  [i \in 1..Len(DocsOfBlock(docs, k)) |-> DocsOfBlock(docs, k)[i].page_content]

\* C12: for every page, the contents of the page's Documents in chunk_index
\* order, overlaps removed, are the page's assembled block (text label, text,
\* tables label, table markdown) up to trailing whitespace
C12_DocumentsReproduceBlock ==
  k_pc = "done" =>
    \A k \in 1..Len(k_pages) :
       GlueChunks(PageContents(k_docs, k), <<>>, k_overlap)
         = RStrip(LabelledBlock(k_pages[k]))

\* the same with the line of 20 "=" that the code writes behind every page
\* counted as part of the block
C12_DocumentsReproduceBlockAndFooter ==
  k_pc = "done" =>
    \A k \in 1..Len(k_pages) :
       GlueChunks(PageContents(k_docs, k), <<>>, k_overlap)
         = RStrip(LabelledBlock(k_pages[k]) \o PageFooter)

\* the same again for the pages that give a single Document
C12_SingleDocumentIsBlockAndFooter ==
  k_pc = "done" =>
    \A k \in 1..Len(k_pages) :
       Len(DocsOfBlock(k_docs, k)) = 1 =>
         DocsOfBlock(k_docs, k)[1].page_content
           = RStrip(LabelledBlock(k_pages[k]) \o PageFooter)

\* C13: the returned list preserves page order: the page metadata are page
\* numbers that never decrease along the list, and the Documents of one page
\* carry the chunk_index 0, 1, 2, ... in list order
C13_PageOrderPreserved ==
  pc = "done" =>
    \A j \in 1..Len(documents) :
       /\ documents[j].metadata.page # NoPage
       /\ \A i \in 1..(j - 1) :
             documents[i].metadata.page[1] <= documents[j].metadata.page[1]
       /\ documents[j].metadata.chunk_index
            = Cardinality({i \in 1..(j - 1) :
                             documents[i].metadata.page = documents[j].metadata.page})

\* the same order, read off the page block each Document was cut from
\* instead of its page metadata
OrderedByBlock(docs) ==
  \A j \in 1..Len(docs) :
     /\ \A i \in 1..(j - 1) : docs[i].block <= docs[j].block
     /\ docs[j].metadata.chunk_index
          = Cardinality({i \in 1..(j - 1) : docs[i].block = docs[j].block})

C13_BlockOrderPreserved ==
  /\ pc = "done" => OrderedByBlock(documents)
  /\ k_pc = "done" => OrderedByBlock(k_docs)

\* C14: every Document carries the file name given to the call as source,
\* and is_page_split is true exactly when the page the Document was cut from
\* gave more than one chunk, so the Documents of a page agree on it
C14_SourceAndSplitFlag ==
  k_pc = "done" =>
    \A j \in 1..Len(k_docs) :
       /\ k_docs[j].metadata.source = FileName
       /\ k_docs[j].metadata.is_page_split
            = (Len(DocsOfBlock(k_docs, k_docs[j].block)) > 1)

\* a document with a page that was split and a page that was not
C14_Witness ==
  /\ k_pc = "done"
  /\ \E i, j \in 1..Len(k_docs) :
        /\ k_docs[i].block # k_docs[j].block
        /\ k_docs[i].metadata.is_page_split
        /\ Len(DocsOfBlock(k_docs, k_docs[i].block)) > 1
        /\ ~k_docs[j].metadata.is_page_split

(***************************************************************************)
(* Claims about rect_iou                                                   *)
(***************************************************************************)
Degenerate(r) == r[3] <= r[1] \/ r[4] <= r[2]

\* the two rectangles share no area: they lie apart or only touch
Disjoint(a, b) ==
  \/ a[3] <= b[1] \/ b[3] <= a[1]
  \/ a[4] <= b[2] \/ b[4] <= a[2]

\* C15: rect_iou is symmetric, for proper, degenerate and inverted rectangles
C15_IouSymmetric == r_pc = "done" => r_ab = r_ba

\* two different rectangles of different area that overlap
C15_Witness ==
  /\ r_pc = "done"
  /\ r_a # r_b
  /\ r_ab[1] > 0
  /\ (r_a[3] - r_a[1]) * (r_a[4] - r_a[2]) # (r_b[3] - r_b[1]) * (r_b[4] - r_b[2])
  /\ r_ab = r_ba

\* C16: rect_iou lies in [0, 1]; it is 0 when the rectangles are disjoint or
\* only touch, or when one of them is degenerate; rect_iou(a, a) is exactly 1
\* when a is not degenerate
C16_IouRange ==
  r_pc = "done" =>
    /\ r_ab[2] > 0 /\ 0 <= r_ab[1] /\ r_ab[1] <= r_ab[2]
    /\ (Disjoint(r_a, r_b) \/ Degenerate(r_a) \/ Degenerate(r_b)) => r_ab[1] = 0
    /\ ~Degenerate(r_a) => (r_aa[1] = r_aa[2] /\ r_aa[1] > 0)

\* proper rectangles that overlap in part, so that the value is strictly
\* between 0 and 1
C16_Witness ==
  /\ r_pc = "done"
  /\ ~Degenerate(r_a) /\ ~Degenerate(r_b)
  /\ 0 < r_ab[1] /\ r_ab[1] < r_ab[2]
  /\ r_aa[1] = r_aa[2]

(***************************************************************************)
(* Claims about fix_hyphenation                                            *)
(***************************************************************************)
\* the whitespace s[lo..hi] around position i, which holds whitespace
WhiteLo(s, i) == MinOf({lo \in 1..i : \A k \in lo..i : IsSpace(s[k])})
WhiteHi(s, i) == Max({hi \in i..Len(s) : \A k \in i..hi : IsSpace(s[k])})

\* the whitespace that starts at position i (none if s[i] is no whitespace)
\* holds a line break
BreakFollows(s, i) ==
  /\ i <= Len(s)
  /\ IsSpace(s[i])
  /\ \E k \in i..WhiteHi(s, i) : s[k] = NL

\* position i holds a hyphen that ends a line, or whitespace behind one
RepairRemoves(s, i) ==
  IF s[i] = "-" THEN BreakFollows(s, i + 1)
  ELSE /\ IsSpace(s[i])
       /\ WhiteLo(s, i) > 1
       /\ s[WhiteLo(s, i) - 1] = "-"
       /\ BreakFollows(s, WhiteLo(s, i))

\* the characters of s that the repair leaves, in order
Repaired(s) ==
  LET kept == SelectSeq([i \in 1..Len(s) |-> i], LAMBDA i : ~RepairRemoves(s, i))
  IN [k \in 1..Len(kept) |-> s[kept[k]]]

\* C18: fix_hyphenation removes every hyphen that is followed, whitespace
\* allowed in between, by a line break, together with the whitespace around
\* that line break, and nothing else; the result has no hyphen directly
\* followed by a line break; "exam-\nple" becomes "example"
C18_HyphenationRepaired ==
  h_pc = "done" =>
    /\ h_out = Repaired(h_text)
    /\ \A i \in 1..(Len(h_out) - 1) : ~(h_out[i] = "-" /\ h_out[i + 1] = NL)
    /\ h_text = ExamNLple => h_out = <<"e", "x", "a", "m", "p", "l", "e">>

C18_Witness ==
  /\ h_pc = "done"
  /\ h_text = ExamNLple
  /\ h_out = <<"e", "x", "a", "m", "p", "l", "e">>

\* a hyphen with blanks before its line break, and a hyphen that stays
C18_WitnessBlanks ==
  /\ h_pc = "done"
  /\ h_text = <<"-", "a", "-", " ", NL>>
  /\ h_out = <<"-", "a">>

(***************************************************************************)
(* Claims about the text extractor                                         *)
(***************************************************************************)
\* the word box, grown by the margin on every side, lies within the table box
GrownWordWithin(w, tb, margin) ==
  /\ w.x0 - margin >= tb[1]
  /\ w.x1 + margin <= tb[3]
  /\ w.top - margin >= tb[2]
  /\ w.bottom + margin <= tb[4]

\* the word box lies within the table box grown by the margin on every side
WordWithinGrown(w, tb, margin) ==
  /\ w.x0 >= tb[1] - margin
  /\ w.x1 <= tb[3] + margin
  /\ w.top >= tb[2] - margin
  /\ w.bottom <= tb[4] + margin

\* C17: inside_any holds for a word box and a table box exactly when the word
\* box, grown by the margin on every side, lies within the table box
C17_ContainsGrownWord ==
  x_pc = "done" =>
    \A j \in 1..Len(x_words) :
       \A i \in 1..Len(TableBBoxes(x_items)) :
          inside_any(WordBBox(x_words[j]), <<TableBBoxes(x_items)[i]>>, InsideMargin)
            <=> GrownWordWithin(x_words[j], TableBBoxes(x_items)[i], InsideMargin)

\* what inside_any computes: the word box lies within the table box grown by
\* the margin
C17_ContainsWithinGrownTable ==
  x_pc = "done" =>
    \A j \in 1..Len(x_words) :
       \A i \in 1..Len(TableBBoxes(x_items)) :
          inside_any(WordBBox(x_words[j]), <<TableBBoxes(x_items)[i]>>, InsideMargin)
            <=> WordWithinGrown(x_words[j], TableBBoxes(x_items)[i], InsideMargin)

\* every word of the page is excluded by a table box
AllWordsExcluded ==
  \A j \in 1..Len(x_words) :
     inside_any(WordBBox(x_words[j]), TableBBoxes(x_items), InsideMargin)

\* C19: for a page without words, or whose words are all excluded as table
\* content, extract_text_without_tables returns the empty string and the
\* deduplication returns it unchanged
C19_NoWordsEmptyText ==
  (x_pc = "done" /\ AllWordsExcluded) => (x_text = <<>> /\ x_out = x_text)

\* a page whose words are all excluded, with a table whose rows the
\* deduplication would look for
C19_Witness ==
  /\ x_pc = "done"
  /\ x_words # <<>>
  /\ AllWordsExcluded
  /\ TableLineSet(x_items) # {}
  /\ x_text = <<>>
  /\ x_out = <<>>

\* a page without words
C19_WitnessNoWords ==
  /\ x_pc = "done"
  /\ x_words = <<>>
  /\ x_items # <<>>
  /\ x_out = <<>>

\* how often word text t stands in the lines, which are words joined by
\* single spaces
RECURSIVE CountToken(_, _)
CountToken(tokens, t) ==
  IF tokens = <<>> THEN 0
  ELSE (IF Head(tokens) = t THEN 1 ELSE 0) + CountToken(Tail(tokens), t)

\* the words of a line
RECURSIVE LineTokens(_)
LineTokens(line) ==
  LET sp == {i \in 1..Len(line) : line[i] = " "}
  IN IF sp = {} THEN <<line>>
     ELSE <<SubSeq(line, 1, MinOf(sp) - 1)>>
          \o LineTokens(SubSeq(line, MinOf(sp) + 1, Len(line)))

TokensOf(lines) == Concat([i \in 1..Len(lines) |-> LineTokens(lines[i])])

WordTexts(words) == [j \in 1..Len(words) |-> words[j].text]

\* every word that is kept stands in the lines as often as the page has it,
\* and the lines hold nothing else
KeptWordsOnceInLines(kept) ==
  /\ Len(TokensOf(x_lines)) = Len(kept)
  /\ \A j \in 1..Len(kept) :
        CountToken(TokensOf(x_lines), kept[j].text)
          = CountToken(WordTexts(kept), kept[j].text)

\* C20: a word is dropped exactly when its box passes the containment test
\* (the word box grown by the margin of 0.5pt lies within the table box)
\* against the bbox of a table of the page; every other word stands exactly
\* once in a reconstructed line; tables without bbox remove no word
C20_DroppedIffContained ==
  x_pc = "done" =>
    /\ x_filtered
         = SelectSeq(x_words,
              LAMBDA w : ~\E i \in 1..Len(x_items) :
                             /\ x_items[i].bbox # NoBBox
                             /\ GrownWordWithin(w, x_items[i].bbox, InsideMargin))
    /\ KeptWordsOnceInLines(x_filtered)

\* the same with the test inside_any computes: the word box lies within the
\* table box grown by the margin
C20_DroppedIffWithinGrownTable ==
  x_pc = "done" =>
    /\ x_filtered
         = SelectSeq(x_words,
              LAMBDA w : ~\E i \in 1..Len(x_items) :
                             /\ x_items[i].bbox # NoBBox
                             /\ WordWithinGrown(w, x_items[i].bbox, InsideMargin))
    /\ KeptWordsOnceInLines(x_filtered)
    /\ (\A i \in 1..Len(x_items) : x_items[i].bbox = NoBBox) => x_filtered = x_words

(***************************************************************************)
(* Claims about line reconstruction                                        *)
(***************************************************************************)
\* word i of ws stands before word j when ws is put in the order of
\* (top, x0), words of equal key keeping their order
BeforeTopX0(ws, i, j) ==
  \/ ws[i].top < ws[j].top
  \/ (ws[i].top = ws[j].top /\ ws[i].x0 < ws[j].x0)
  \/ (ws[i].top = ws[j].top /\ ws[i].x0 = ws[j].x0 /\ i < j)

BeforeX0(ws, i, j) ==
  ws[i].x0 < ws[j].x0 \/ (ws[i].x0 = ws[j].x0 /\ i < j)

\* ws in the order of (top, x0)
ByTopX0(ws) ==
  [p \in 1..Len(ws) |->
     ws[CHOOSE i \in 1..Len(ws) :
          Cardinality({j \in 1..Len(ws) : BeforeTopX0(ws, j, i)}) = p - 1]]

\* ws in the order of x0
ByX0(ws) ==
  [p \in 1..Len(ws) |->
     ws[CHOOSE i \in 1..Len(ws) :
          Cardinality({j \in 1..Len(ws) : BeforeX0(ws, j, i)}) = p - 1]]

\* the running vertical value after word i of the sorted words, as the
\* fraction <<num, den>>: the top of the word that starts a line, and the
\* mean of the value before and the top of a word that joins one
Running(srt) ==
  LET run[i \in 1..Len(srt)] ==
        IF i = 1 THEN <<srt[1].top, 1>>
        ELSE IF Abs(srt[i].top * run[i - 1][2] - run[i - 1][1]) <= YTol * run[i - 1][2]
             THEN <<run[i - 1][1] + srt[i].top * run[i - 1][2], 2 * run[i - 1][2]>>
             ELSE <<srt[i].top, 1>>
  IN run

\* the positions of the sorted words that start a line
LineStarts(srt) ==
  {i \in 1..Len(srt) :
     \/ i = 1
     \/ Abs(srt[i].top * Running(srt)[i - 1][2] - Running(srt)[i - 1][1])
          > YTol * Running(srt)[i - 1][2]}

\* the words of the line that starts at position i
LineFrom(srt, i) ==
  LET later == {j \in LineStarts(srt) : j > i}
      last == IF later = {} THEN Len(srt) ELSE MinOf(later) - 1
  IN SubSeq(srt, i, last)

\* the starts in ascending order
StartsInOrder(srt) ==
  [p \in 1..Cardinality(LineStarts(srt)) |->
     CHOOSE i \in LineStarts(srt) :
        Cardinality({j \in LineStarts(srt) : j < i}) = p - 1]

\* C21: the retained words are processed in the order of (top, x0); a word
\* joins the current line exactly when its top differs from the line's
\* running vertical value by at most the tolerance of 3pt and starts a new
\* line otherwise; every line holds its words in ascending x0 joined by
\* single spaces, and the lines stand in the order of their first word's top
C21_LinesReconstructed ==
  x_pc = "done" =>
    LET srt == ByTopX0(x_filtered)
        starts == StartsInOrder(srt)
    IN /\ Len(x_lines) = Len(starts)
       /\ \A p \in 1..Len(starts) :
             x_lines[p] = Join(WordTexts(ByX0(LineFrom(srt, starts[p]))), <<" ">>)
       /\ \A p \in 1..Len(starts), q \in 1..Len(starts) :
             p < q => srt[starts[p]].top <= srt[starts[q]].top

\* three words on descending tops 10pt, 13pt and 15pt: the second joins the
\* first at the distance of exactly 3pt, the third is 3.5pt from the running
\* value 11.5pt and starts a line although it is 2pt under the second
C21_Witness ==
  /\ x_pc = "done"
  /\ \E i \in 1..Len(x_filtered), j \in 1..Len(x_filtered), k \in 1..Len(x_filtered) :
        /\ x_filtered[i].top = 20
        /\ x_filtered[j].top = 26
        /\ x_filtered[k].top = 30
  /\ Len(x_filtered) = 3
  /\ x_lines = << <<"a", " ", "e">>, <<"f">> >>

\* a line whose words are not in ascending x0 in the order of (top, x0)
C21_WitnessReordered ==
  /\ x_pc = "done"
  /\ x_lines = << <<"f", " ", "e">> >>

(***************************************************************************)
(* Claims about the lines the deduplicator returns                         *)
(***************************************************************************)
\* text has a line that is empty or holds only whitespace
HasBlankLine(text) ==
  \E i \in 1..Len(SplitLines(text)) : Strip(SplitLines(text)[i]) = <<>>

\* C22: for every non-empty text and every list of TableItems the text
\* remove_table_line_duplicates returns has no empty or whitespace-only line
C22_NoBlankLineReturned ==
  (d_pc # "init" /\ d_text # <<>>) => ~HasBlankLine(d_out)

\* the same for the table lists that have a row of two non-blank cells, for
\* which the lines are filtered
C22_NoBlankLineWhenRowsKnown ==
  (d_pc # "init" /\ d_text # <<>> /\ TableLineSet(d_tables) # {})
     => ~HasBlankLine(d_out)

(***************************************************************************)
(* Claims about the assembled text                                         *)
(***************************************************************************)
\* the positions of s at which a page marker starts
MarkerStarts(s) == {i \in 1..Len(s) : s[i] = "=" /\ MarkerAt(s, i).ok}

\* the k-th smallest element of a set of numbers
NthOf(S, k) == CHOOSE i \in S : Cardinality({j \in S : j < i}) = k - 1

\* what stands in s from its k-th marker up to the next marker, or the end
UnderMarker(s, k) ==
  SubSeq(s, NthOf(MarkerStarts(s), k),
         IF k < Cardinality(MarkerStarts(s))
         THEN NthOf(MarkerStarts(s), k + 1) - 1 ELSE Len(s))

\* the first position of p in s, 0 when s does not hold p
FirstAt(s, p) ==
  IF Occurs(s, p) THEN MinOf({i \in 1..Len(s) : HasPrefixAt(s, i, p)}) ELSE 0

\* the line that stands over table i
TableHeading(i, source) ==
  <<NL, "-", "-", "-", " ">> \o Table_ \o <<" ">> \o Decimal(i)
  \o <<" ", "(">> \o SourceChars(source) \o <<")", " ", "-", "-", "-", NL>>

\* seg holds the text label and the text exactly when the text is not empty,
\* and the tables in their order, numbered 1..n, each with its source tag
HoldsPage(seg, page_info) ==
  /\ Occurs(seg, <<"[">> \o Text_ \o <<"]", NL>>) <=> page_info.text # <<>>
  /\ page_info.text # <<>> =>
       Occurs(seg, <<"[">> \o Text_ \o <<"]", NL>> \o page_info.text \o <<NL>>)
  /\ \A i \in 1..Len(page_info.tables) :
        /\ Occurs(seg, TableHeading(i, page_info.tables[i].source)
                         \o page_info.tables[i].markdown \o <<NL>>)
        /\ i > 1 =>
             FirstAt(seg, TableHeading(i - 1, page_info.tables[i - 1].source))
               < FirstAt(seg, TableHeading(i, page_info.tables[i].source))
  /\ ~Occurs(seg, <<NL, "-", "-", "-", " ">> \o Table_ \o <<" ">>
                    \o Decimal(Len(page_info.tables) + 1))

AssembledAsStated ==
  /\ Len(all_page_data) = n_pages
  /\ Cardinality(MarkerStarts(txt_content)) = n_pages
  /\ \A k \in 1..n_pages :
        /\ all_page_data[k].page = k
        /\ MarkerAt(txt_content, NthOf(MarkerStarts(txt_content), k)).group = Decimal(k)
        /\ HoldsPage(UnderMarker(txt_content, k), all_page_data[k])

\* C23: the assembled text holds exactly one page marker for each page of
\* the input, numbered 1..N in ascending order; under a page's marker the
\* text label and the text stand exactly when the page's deduplicated text
\* is not empty, and the page's tables stand in detection order, each under
\* its index 1..n and its source tag
C23_OneMarkerPerPage ==
  pc \in {"assembled", "done"} => AssembledAsStated

\* the same for the documents none of whose page texts reads like a page
\* marker
C23_OneMarkerPerMarkerFreePage ==
  (pc \in {"assembled", "done"} /\ MarkerFree(all_page_data)) => AssembledAsStated

(***************************************************************************)
(* Claims about the header, the padding and the escaping of the renderer   *)
(***************************************************************************)
\* the cell text the header line shows for cell j of row, in a table of
\* width columns
ShownCell(row, j) ==
  IF j <= Len(row) /\ row[j] # None_ THEN esc(Strip(row[j])) ELSE <<>>

\* the first line of md shows row in width columns
HeaderShows(md, row, width) ==
  /\ Len(LineCells(SplitNL(md)[1])) = width
  /\ \A j \in 1..width : Strip(LineCells(SplitNL(md)[1])[j]) = ShownCell(row, j)

\* every line of md has width cells between pipes that no backslash precedes
EveryLineHas(md, width) ==
  \A k \in 1..Len(SplitNL(md)) : Len(LineCells(SplitNL(md)[k])) = width

\* md holds no line break but those that end its lines
NoBreakInLine(md) == \A i \in 1..Len(md) : md[i] # CR

GridHasCR(table_data) ==
  \E i \in 1..Len(table_data) : \E j \in 1..Len(table_data[i]) :
     table_data[i][j] # None_ /\ \E c \in 1..Len(table_data[i][j]) :
        table_data[i][j][c] = CR

\* C24: the header line is row 0 of the cell grid, every row is padded with
\* empty cells to the longest row of the grid, and no cell puts an unescaped
\* pipe or a line break into the output
C24_HeaderPaddingEscaping ==
  (m_pc = "done" /\ RawNonBlankRows(m_data) # <<>>) =>
    LET width == Max({Len(m_data[i]) : i \in 1..Len(m_data)})
    IN /\ HeaderShows(m_md, m_data[1], width)
       /\ EveryLineHas(m_md, width)
       /\ NoBreakInLine(m_md)

\* what holds of every grid without a carriage return: the header line is
\* the first row that has a non-blank cell, and every line has the cells of
\* the longest such row, separated by the only pipes that are not escaped
C24_FirstNonBlankRowIsHeader ==
  (m_pc = "done" /\ RawNonBlankRows(m_data) # <<>> /\ ~GridHasCR(m_data)) =>
    LET width == Max({Len(RawNonBlankRows(m_data)[i]) :
                        i \in 1..Len(RawNonBlankRows(m_data))})
    IN /\ HeaderShows(m_md, RawNonBlankRows(m_data)[1], width)
       /\ EveryLineHas(m_md, width)
       /\ NoBreakInLine(m_md)

\* for the grids whose row 0 has a non-blank cell and is not shorter than a
\* blank row, only a carriage return in a cell stands against the statement
C24_Row0HeaderWithoutCR ==
  (m_pc = "done" /\ m_data # <<>> /\ RawRowNonBlank(m_data[1]) /\ ~GridHasCR(m_data)
   /\ Max({Len(m_data[i]) : i \in 1..Len(m_data)})
        = Max({Len(RawNonBlankRows(m_data)[i]) : i \in 1..Len(RawNonBlankRows(m_data))})) =>
    /\ HeaderShows(m_md, m_data[1], Max({Len(m_data[i]) : i \in 1..Len(m_data)}))
    /\ EveryLineHas(m_md, Max({Len(m_data[i]) : i \in 1..Len(m_data)}))
    /\ NoBreakInLine(m_md)

(***************************************************************************)
(* Claims about the size of the Documents                                  *)
(***************************************************************************)
\* the page blocks text_to_documents cuts the assembled text into: what
\* stands between one marker and the next
BlocksOf(text_content) ==
  [k \in 1..((Len(SplitPages(text_content, 1)) - 1) \div 2) |->
     SplitPages(text_content, 1)[2 * k + 1]]

\* C25: no Document is longer than the chunk size, whatever the size; with
\* the chunk size and overlap convert_pdf_to_text passes (800 and 100), a
\* page block longer than the chunk size gives more than one Document
C25_ChunkSizeBound ==
  k_pc = "done" =>
    /\ \A j \in 1..Len(k_docs) : Len(k_docs[j].page_content) <= k_size
    /\ (k_size = ChunkSize /\ k_overlap = ChunkOverlap) =>
         \A k \in 1..Len(BlocksOf(k_text)) :
            Len(BlocksOf(k_text)[k]) > k_size => Len(DocsOfBlock(k_docs, k)) > 1

\* a last page whose block is one or two characters longer than 800 because
\* of the line breaks at its end, cut into a Document of 799 or 800
\* characters and a second one
C25_Witness ==
  /\ k_pc = "done"
  /\ k_size = ChunkSize
  /\ \E k \in 1..Len(BlocksOf(k_text)) :
        /\ Len(BlocksOf(k_text)[k]) \in {ChunkSize + 1, ChunkSize + 2}
        /\ Len(RStrip(BlocksOf(k_text)[k])) <= ChunkSize
        /\ Len(DocsOfBlock(k_docs, k)) = 2
        /\ Len(DocsOfBlock(k_docs, k)[1].page_content) >= ChunkSize - 1

\* a page without a separator in reach, cut where the chunk size ends
C25_WitnessHardCut ==
  /\ k_pc = "done"
  /\ \E j \in 1..Len(k_docs) :
        /\ Len(k_docs[j].page_content) = k_size
        /\ \A c \in 1..k_size : ~IsSpace(k_docs[j].page_content[c])

(***************************************************************************)
(* Claims about what the detector keeps                                    *)
(***************************************************************************)
\* the candidate has a cell grid with a non-blank cell
CandNonBlank(t) == t.data # NoData /\ ~CamelotSkips(t.data)

\* every candidate of cands is among the returned items as a fitz item, and
\* if there is one, every item is a fitz item and only fitz ran
KeptAsPrimary(cands) ==
  /\ \A i \in 1..Len(cands) :
        \E k \in 1..Len(t_res.table_items) :
           /\ t_res.table_items[k].source = "fitz"
           /\ t_res.table_items[k].raw_data = cands[i].data
           /\ t_res.table_items[k].bbox = cands[i].bbox
  /\ cands # <<>> =>
       /\ \A k \in 1..Len(t_res.table_items) : t_res.table_items[k].source = "fitz"
       /\ Strategies(t_res.attempts) = <<"fitz">>

\* C26: every candidate the primary detector reports whose cell grid has a
\* non-blank cell is returned as a TableItem with source fitz, and no
\* fallback strategy runs on a page where the primary found such a table
C26_PrimaryNonBlankKept ==
  t_pc = "returned" => KeptAsPrimary(SelectSeq(t_in.fitz.tables, CandNonBlank))

\* the same for the candidates that also carry a bbox and whose processing
\* ended without an exception
C26_PrimaryWithBBoxKept ==
  t_pc = "returned" =>
    KeptAsPrimary(SelectSeq(Processed(t_in.fitz),
                            LAMBDA t : CandNonBlank(t) /\ t.bbox # NoBBox))

(***************************************************************************)
(* Claims about the coordinates of the table boxes                         *)
(***************************************************************************)
\* the rectangle a strategy reports, from the top-left corner of the page:
\* fitz reports it so, camelot reports it from the bottom-left corner
TopLeftOrigin(source, bbox) ==
  IF source = "fitz" THEN bbox
  ELSE <<bbox[1], PageHeight - bbox[4], bbox[3], PageHeight - bbox[2]>>

\* the candidates whose item the call returned, with the source of the item
ReturnedCands ==
  {<<"fitz", c>> : c \in {t_in.fitz.tables[i] : i \in 1..Len(t_in.fitz.tables)}}
  \cup (IF Len(t_res.attempts) >= 2
        THEN {<<"camelot-lattice", c>> :
                c \in {t_in.lattice.tables[i] : i \in 1..Len(t_in.lattice.tables)}}
        ELSE {})
  \cup (IF Len(t_res.attempts) >= 3
        THEN {<<"camelot-stream", c>> :
                c \in {t_in.stream.tables[i] : i \in 1..Len(t_in.stream.tables)}}
        ELSE {})

\* the item k of the returned list was made from candidate c of source
MadeFrom(k, source, c) ==
  /\ t_res.table_items[k].source = source
  /\ t_res.table_items[k].raw_data = c.data
  /\ c.bbox # NoBBox

\* C27: every bbox a returned TableItem carries is the table's rectangle from
\* the top-left corner of the page, whichever strategy reported the table
C27_BBoxTopLeftOrigin ==
  t_pc = "returned" =>
    \A k \in 1..Len(t_res.table_items) :
       t_res.table_items[k].bbox # NoBBox =>
         \E sc \in ReturnedCands :
            /\ MadeFrom(k, sc[1], sc[2])
            /\ t_res.table_items[k].bbox = TopLeftOrigin(sc[1], sc[2].bbox)

\* the same for the items of the primary strategy
C27_PrimaryBBoxTopLeftOrigin ==
  t_pc = "returned" =>
    \A k \in 1..Len(t_res.table_items) :
       (t_res.table_items[k].bbox # NoBBox /\ t_res.table_items[k].source = "fitz") =>
         \E sc \in ReturnedCands :
            /\ MadeFrom(k, sc[1], sc[2])
            /\ t_res.table_items[k].bbox = TopLeftOrigin(sc[1], sc[2].bbox)

(***************************************************************************)
(* Claims about the sources in one page's table list                       *)
(***************************************************************************)
SameSource(table_items) ==
  \A i \in 1..Len(table_items), j \in 1..Len(table_items) :
     table_items[i].source = table_items[j].source

\* C28: the TableItems returned for a page all carry the same source tag,
\* also when a strategy raises while it iterates its tables
C28_OneSourcePerPage ==
  t_pc = "returned" => SameSource(t_res.table_items)

\* the same for the calls in which no strategy that ran raised
C28_OneSourceWithoutException ==
  (t_pc = "returned" /\ \A k \in 1..Len(t_res.attempts) : ~t_res.attempts[k].raised)
     => SameSource(t_res.table_items)

(***************************************************************************)
(* Claims about the page number of a Document                              *)
(***************************************************************************)
\* the length of the assembled text up to and with the block of page p
LenThrough(page_data, p) == Len(AssembleText(SubSeq(page_data, 1, p)))

\* the input page in whose part of the assembled text position i lies
PageAt(page_data, i) ==
  CHOOSE p \in 1..Len(page_data) :
     LenThrough(page_data, p - 1) < i /\ i <= LenThrough(page_data, p)

\* the input page from which the k-th block of the assembled text was
\* derived: the page in whose part the marker in front of the block stands
PageOfBlock(page_data, k) ==
  PageAt(page_data, NthOf(MarkerStarts(AssembleText(page_data)), k))

\* C29: the page metadata of every Document is the 1-based number of the
\* input page its content was derived from, and so one of 1..N, also when
\* the content of a page holds a string shaped like the page marker
C29_PageIsInputPage ==
  pc = "done" =>
    \A j \in 1..Len(documents) :
       /\ documents[j].metadata.page = <<PageOfBlock(all_page_data, documents[j].block)>>
       /\ documents[j].metadata.page[1] \in 1..n_pages

\* what the code gives: no Document carries a page number
C29_PageIsNone ==
  pc = "done" =>
    \A j \in 1..Len(documents) : documents[j].metadata.page = NoPage

(***************************************************************************)
(* Claims about the number of rendered lines                               *)
(***************************************************************************)
\* C30: a table with n >= 1 non-blank rows is rendered as n + 1 lines, the
\* header, the separator and n - 1 body rows, so that every non-blank row
\* stands in the markdown once
C30_EachRowOnce ==
  (m_pc = "done" /\ Len(RawNonBlankRows(m_data)) >= 1) =>
     Len(SplitNL(m_md)) = Len(RawNonBlankRows(m_data)) + 1

\* the same for the tables with at least two non-blank rows
C30_EachRowOnceFromTwoRows ==
  (m_pc = "done" /\ Len(RawNonBlankRows(m_data)) >= 2) =>
     Len(SplitNL(m_md)) = Len(RawNonBlankRows(m_data)) + 1
====
